---- MODULE Spec2Model ----
(***************************************************************************)
(* Knowledge-graph construction of ai_autovault: the Neo4j adapter         *)
(* (GraphConnector), the Data Vault graph builders (GraphBuilder) and the  *)
(* batch orchestrator, modelled over an abstract property-graph store.     *)
(*                                                                         *)
(* The store is a set of node records and a set of edge records.  A Cypher *)
(* MERGE is modelled by what it does: it matches every stored element that *)
(* carries all the properties of the MERGE pattern, and creates one only   *)
(* when nothing matches.  Timestamps are readings of a clock that may or   *)
(* may not advance between two readings (datetime.utcnow).                 *)
(***************************************************************************)
EXTENDS Integers, Sequences, FiniteSets, TLC

\* ------------------------------------------------------------------------
\* Bounds of the model
\* ------------------------------------------------------------------------
MaxClock == 1
MaxCalls == 3
MaxFaults == 1
MaxBatch == 2

\* ------------------------------------------------------------------------
\* Values
\* ------------------------------------------------------------------------
\* None / an absent property.
NULL == "NULL"
\* No id (a call that returned none).
NoId == -1
\* The empty string ('' is a value that is present but falsy).
EMPTY == ""

\* NodeType (node_models.py).
NodeType ==
  {"SourceSystem", "SourceSchema", "TargetSchema", "SourceTable", "TargetTable",
   "SourceColumn", "TargetColumn", "Schema", "Table", "Column", "DataVaultComponent"}

\* RelationshipType (relationship_models.py).
RelationshipType ==
  {"CONTAINS", "MAPPED_TO", "REFERENCES", "SOURCE_OF", "DERIVED_FROM", "PART_OF",
   "TRANSFORMS_TO"}

\* The string-valued properties a node object can carry (the fields of the
\* NodeBase subclasses that the builders set).
NodeFields ==
  {"name", "schema", "table", "source_system", "description", "data_type",
   "key_type", "entity_type", "collision_code"}

\* A node object as the builders construct it: every field of NodeFields, NULL
\* when the field is None or not a field of the class; created_at and
\* updated_at are the clock reading at construction.
NodeBase(label, name, schema, table, source_system, description, data_type, key_type, entity_type, collision_code, now) ==
  [node_type |-> label, name |-> name, schema |-> schema, table |-> table,
   source_system |-> source_system, description |-> description,
   data_type |-> data_type, key_type |-> key_type, entity_type |-> entity_type,
   collision_code |-> collision_code, created_at |-> now, updated_at |-> now]

SourceSystemNode(name, description, now) ==
  NodeBase("SourceSystem", name, NULL, NULL, NULL, description, NULL, NULL, NULL, NULL, now)
SchemaNode(name, source_system, now) ==
  NodeBase("Schema", name, NULL, NULL, source_system, NULL, NULL, NULL, NULL, NULL, now)
SourceSchemaNode(name, source_system, now) ==
  NodeBase("SourceSchema", name, NULL, NULL, source_system, NULL, NULL, NULL, NULL, NULL, now)
TargetSchemaNode(name, now) ==
  NodeBase("TargetSchema", name, NULL, NULL, NULL, NULL, NULL, NULL, NULL, NULL, now)
SourceTableNode(name, schema, description, now) ==
  NodeBase("SourceTable", name, schema, NULL, NULL, description, NULL, NULL, NULL, NULL, now)
TableNode(name, schema, description, now) ==
  NodeBase("Table", name, schema, NULL, NULL, description, NULL, NULL, NULL, NULL, now)
TargetTableNode(name, schema, description, entity_type, collision_code, now) ==
  NodeBase("TargetTable", name, schema, NULL, NULL, description, NULL, NULL,
           entity_type, collision_code, now)
SourceColumnNode(name, table, schema, data_type, description, now) ==
  NodeBase("SourceColumn", name, schema, table, NULL, description, data_type, NULL,
           NULL, NULL, now)
ColumnNode(name, table, schema, data_type, description, now) ==
  NodeBase("Column", name, schema, table, NULL, description, data_type, NULL,
           NULL, NULL, now)
TargetColumnNode(name, table, schema, data_type, key_type, description, now) ==
  NodeBase("TargetColumn", name, schema, table, NULL, description, data_type,
           key_type, NULL, NULL, now)
DataVaultNode(name, description, target_schema, now) ==
  NodeBase("DataVaultComponent", name, target_schema, NULL, NULL, description, NULL,
           NULL, NULL, NULL, now)

\* ------------------------------------------------------------------------
\* The store
\* ------------------------------------------------------------------------
\* The uniqueness constraints GraphConnector declares when it connects
\* (_initialize_constraints): the label and the fields of each.
AdapterConstraints ==
  {[label |-> "SourceSystem", fields |-> {"name"}],
   [label |-> "Table", fields |-> {"name", "schema"}],
   [label |-> "Column", fields |-> {"name", "table", "schema"}],
   [label |-> "DataVaultComponent", fields |-> {"name"}]}

\* The uniqueness constraints SchemaManager.setup_schema declares, in the
\* order of its statements.
SchemaManagerConstraints ==
  <<[label |-> "SourceSchemaNode", fields |-> {"name"}],
    [label |-> "SourceTableNode", fields |-> {"schema", "name"}],
    [label |-> "SourceColumnNode", fields |-> {"schema", "table", "name"}],
    [label |-> "TargetSchemaNode", fields |-> {"name"}],
    [label |-> "TargetTableNode", fields |-> {"schema", "name"}],
    [label |-> "TargetColumnNode", fields |-> {"schema", "table", "name"}]>>

\* The database a connected GraphConnector starts with.
EmptyStore ==
  [nodes |-> {}, edges |-> {}, nextNode |-> 0, nextRel |-> 0,
   constraints |-> AdapterConstraints]

\* A node with the label of a constraint and the same values in its fields
\* is stored already: creating `node` violates the constraint.
ConstraintViolated(st, node) ==
  \E c \in st.constraints :
    /\ c.label = node.node_type
    /\ \E n \in st.nodes : n.node_type = c.label /\ \A f \in c.fields : n[f] = node[f]

\* The properties create_node sends: every non-None field (props, line 102).
PropsOf(node) == {f \in NodeFields : node[f] # NULL}

\* The pattern of the MERGE in create_node: the uniqueness fields of the five
\* categories the code names, and for every other category all the
\* properties sent, created_at included and updated_at removed.
\* The result is the set of string fields of the pattern and whether
\* created_at is part of it.
merge_props(node) ==
  LET props == PropsOf(node)
      t == node.node_type IN
  IF t = "SourceSystem" /\ "name" \in props
    THEN [fields |-> {"name"}, created |-> FALSE]
  ELSE IF t = "Schema" /\ {"name", "source_system"} \subseteq props
    THEN [fields |-> {"name", "source_system"}, created |-> FALSE]
  ELSE IF t = "Table" /\ {"name", "schema"} \subseteq props
    THEN [fields |-> {"name", "schema"}, created |-> FALSE]
  ELSE IF t = "Column" /\ {"name", "table", "schema"} \subseteq props
    THEN [fields |-> {"name", "table", "schema"}, created |-> FALSE]
  ELSE IF t = "DataVaultComponent" /\ "name" \in props
    THEN [fields |-> {"name"}, created |-> FALSE]
  ELSE [fields |-> props, created |-> TRUE]

\* The stored nodes the MERGE pattern of `node` matches.
MergeMatches(st, node) ==
  LET mp == merge_props(node) IN
  {n \in st.nodes :
     /\ n.node_type = node.node_type
     /\ \A f \in mp.fields : n[f] = node[f]
     /\ mp.created => n.created_at = node.created_at}

\* A create_node whose ON MATCH sets all the properties sent (n += $all_props),
\* created_at among them.
create_node_overwriting(st, node) ==
  LET matched == MergeMatches(st, node) IN
  IF matched = {}
    THEN IF ConstraintViolated(st, node)
           THEN {[st |-> st, id |-> NoId, ok |-> FALSE]}
           ELSE {[st |-> [st EXCEPT !.nodes = @ \cup {node @@ [id |-> st.nextNode]},
                                   !.nextNode = @ + 1],
                  id |-> st.nextNode, ok |-> TRUE]}
    ELSE LET touched == {node @@ [id |-> n.id] : n \in matched}
             st2 == [st EXCEPT !.nodes = (@ \ matched) \cup touched] IN
         {[st |-> st2, id |-> n.id, ok |-> TRUE] : n \in matched}

\* create_node: the outcomes of one call, each the store after it and the id
\* returned.  Nothing matches: the node is created with all its properties.
\* Something matches: every matched node gets the new updated_at, one row is
\* returned per matched node, and result.single() hands back one of them.
create_node(st, node) ==
  LET matched == MergeMatches(st, node) IN
  IF matched = {}
    THEN IF ConstraintViolated(st, node)
           THEN {[st |-> st, id |-> NoId, ok |-> FALSE]}
           ELSE {[st |-> [st EXCEPT !.nodes = @ \cup {node @@ [id |-> st.nextNode]},
                                   !.nextNode = @ + 1],
                  id |-> st.nextNode, ok |-> TRUE]}
    ELSE LET touched == {[n EXCEPT !.updated_at = node.updated_at] : n \in matched}
             st2 == [st EXCEPT !.nodes = (@ \ matched) \cup touched] IN
         {[st |-> st2, id |-> n.id, ok |-> TRUE] : n \in matched}

\* A relationship object: type, end points, the properties the builders put
\* on it, and the clock reading at construction.
RelationshipBase(type, source_id, target_id, entity_type, collision_code, key_type, now) ==
  [relationship_type |-> type, source_id |-> source_id, target_id |-> target_id,
   entity_type |-> entity_type, collision_code |-> collision_code,
   key_type |-> key_type, created_at |-> now, updated_at |-> now]

ContainsRelationship(source_id, target_id, now) ==
  RelationshipBase("CONTAINS", source_id, target_id, NULL, NULL, NULL, now)
TransformsToRelationship(source_id, target_id, entity_type, collision_code, key_type, now) ==
  RelationshipBase("TRANSFORMS_TO", source_id, target_id, entity_type, collision_code,
                   key_type, now)

NodeIds(st) == {n.id : n \in st.nodes}

\* A MERGE that also puts the properties of the relationship in its pattern,
\* the way create_node does for a node.
RelMatchesOnProps(st, rel) ==
  {e \in st.edges : /\ e.relationship_type = rel.relationship_type
                    /\ e.source_id = rel.source_id
                    /\ e.target_id = rel.target_id
                    /\ e.created_at = rel.created_at}

\* The stored edges the MERGE (source)-[r:TYPE]->(target) matches.
RelMatches(st, rel) ==
  {e \in st.edges : /\ e.relationship_type = rel.relationship_type
                    /\ e.source_id = rel.source_id
                    /\ e.target_id = rel.target_id}

\* The dot-separated parts of the type strings used here (TLA+ has no
\* operation on the characters of a string).
Split(type) ==
  CASE type = "RelationshipType.CONTAINS" -> <<"RelationshipType", "CONTAINS">>
    [] type = "RelationshipType.TRANSFORMS_TO" -> <<"RelationshipType", "TRANSFORMS_TO">>
    [] OTHER -> <<type>>

\* rel_type: the enum value or str(), and of a string with a dot the part
\* after the last dot.
rel_type(type) == LET parts == Split(type) IN parts[Len(parts)]

\* The token at which the parser of the store rejects [r:TYPE], for the type
\* strings used here that are no identifier; NULL when the query parses.
InvalidInput(type) ==
  CASE type = "HAS COLUMN" -> "COLUMN"
    [] type = EMPTY -> "]"
    [] OTHER -> NULL

\* One MERGE (source)-[r:TYPE]->(target) statement with RETURN id(r): no row
\* (id NoId) when the MATCH on the two end points finds none.
MergeRelationship(st, rel) ==
  LET matched == RelMatches(st, rel) IN
  IF ~ ({rel.source_id, rel.target_id} \subseteq NodeIds(st))
    THEN {[st |-> st, id |-> NoId, ok |-> FALSE]}
  ELSE IF matched = {}
    THEN {[st |-> [st EXCEPT !.edges = @ \cup {rel @@ [id |-> st.nextRel]},
                            !.nextRel = @ + 1],
           id |-> st.nextRel, ok |-> TRUE]}
    ELSE LET touched == {[e EXCEPT !.updated_at = rel.updated_at] : e \in matched}
             st2 == [st EXCEPT !.edges = (@ \ matched) \cup touched] IN
         {[st |-> st2, id |-> e.id, ok |-> TRUE] : e \in matched}

\* create_relationship: the outcomes of one call.  ok = FALSE is a raise: of
\* line 275 when the MATCH on the two end points found no row, of line 269
\* when the store rejected the query.  The retry with CONTAINS is made only
\* for a rejection at a dot.
create_relationship(st, rel) ==
  LET typed == [rel EXCEPT !.relationship_type = rel_type(rel.relationship_type)]
      token == InvalidInput(typed.relationship_type)
  IN  IF token = NULL THEN MergeRelationship(st, typed)
      ELSE IF token = "."
        THEN LET retried == MergeRelationship(st, [typed EXCEPT !.relationship_type = "CONTAINS"])
             IN  {IF r.ok THEN r ELSE [st |-> r.st, id |-> NoId, ok |-> FALSE] : r \in retried}
        ELSE {[st |-> st, id |-> NoId, ok |-> FALSE]}

\* ------------------------------------------------------------------------
\* Data Vault declarations (the parsed YAML documents)
\* ------------------------------------------------------------------------
\* The `source` descriptor of a column entry: absent, a bare string, a list
\* (of strings and other scalars) or a mapping with or without a name.
SrcNone == [kind |-> "none", name |-> NULL, items |-> << >>, description |-> NULL, dtype |-> NULL]
SrcStr(name) == [SrcNone EXCEPT !.kind = "str", !.name = name]
SrcList(items) == [SrcNone EXCEPT !.kind = "list", !.items = items]
SrcDict(name, description) == [SrcNone EXCEPT !.kind = "dict", !.name = name, !.description = description]
\* The local variable `source` before its first assignment.
Unbound == [SrcNone EXCEPT !.kind = "unbound"]

\* One element of a source list: a string or some other scalar (v is then
\* its repr).
Str(v) == [isstr |-> TRUE, v |-> v]
NonStr(v) == [isstr |-> FALSE, v |-> v]

\* A column entry; target, key_type and description are NULL when the key is absent.
Col(target, key_type, description, source) ==
  [target |-> target, dtype |-> NULL, key_type |-> key_type,
   description |-> description, source |-> source]

\* A stored component or uploaded file: yaml is "none" (no yaml_content),
\* "invalid" (it does not parse to a mapping) or "dict".
Decl(name, ss, st, ts, tt, et, cc, cols) ==
  [name |-> name, yaml |-> "dict", source_schema |-> ss, source_table |-> st,
   target_schema |-> ts, target_table |-> tt, target_entity_type |-> et,
   collision_code |-> cc, description |-> NULL, columns |-> cols]

\* dict.get(key, default)
Get(v, default) == IF v = NULL THEN default ELSE v

\* not all([...]) of line 902: a coordinate that is None or '' is missing.
Falsy(v) == v = NULL \/ v = EMPTY

\* A check that forgets target_table.
MissingRequiredButTarget(d) ==
  \E f \in {"source_schema", "source_table", "target_schema"} : Falsy(d[f])

MissingRequired(d) ==
  \E f \in {"source_schema", "source_table", "target_schema", "target_table"} : Falsy(d[f])

\* The names a source descriptor normalises to (lines 1125-1133).
RECURSIVE StringsOf(_)
StringsOf(items) ==
  IF items = << >> THEN << >>
  ELSE IF Head(items).isstr THEN <<Head(items).v>> \o StringsOf(Tail(items))
       ELSE StringsOf(Tail(items))

source_column_names(source) ==
  IF source.kind = "str" THEN <<source.name>>
  ELSE IF source.kind = "list" THEN StringsOf(source.items)
  ELSE IF source.kind = "dict" /\ source.name # NULL THEN <<source.name>>
  ELSE << >>

\* ------------------------------------------------------------------------
\* The Data Vault builders, one store call per step
\* ------------------------------------------------------------------------
\* A dictionary with no key.
EmptyMap == [x \in {} |-> NoId]
Put(map, key, value) == (key :> value) @@ map

\* node_cache as build_data_vault creates it: no key in any of its six
\* dictionaries.  A key of the model is <<dictionary, name, ...>>; the code
\* joins the names with dots, which is the same for names without a dot.
EmptyCache == EmptyMap

\* The local variables of one builder call.
InitLocals ==
  [source_schema |-> NoId, target_schema |-> NoId, source_table |-> NoId,
   target_table |-> NoId, target_column |-> NoId, source_column |-> NoId,
   source_column_ids |-> EmptyMap, source |-> Unbound,
   names |-> << >>, i |-> 1, j |-> 1]

\* An invocation: kind is "batch" (build_data_vault), "files" (the upload
\* endpoint), "cached" (build_detailed_data_vault_with_cache without a cache)
\* or "uncached" (build_detailed_data_vault).
NewFrame(kind, decls) ==
  [kind |-> kind, decls |-> decls, k |-> 1, pc |-> "start", status |-> "running",
   cache |-> EmptyCache, loc |-> InitLocals,
   res |-> [nodes |-> << >>, rels |-> << >>],
   all |-> [components_count |-> 0, relationships_count |-> 0,
            nodes |-> << >>, rels |-> << >>],
   successful |-> << >>, errors |-> << >>, outcome |-> << >>]

IsBatch(p) == p.kind \in {"batch", "files"}

\* A builder that never looks into node_cache.
UsesCacheNever(p) == FALSE

\* Whether the builder consults node_cache.
UsesCache(p) == p.kind # "uncached"

\* Lines 830-839: append the nodes whose id is not yet in the list.
RECURSIVE AddNewNodes(_, _)
AddNewNodes(all, nodes) ==
  IF nodes = << >> THEN all
  ELSE AddNewNodes(IF \E x \in 1..Len(all) : all[x].id = Head(nodes).id
                     THEN all ELSE Append(all, Head(nodes)),
                   Tail(nodes))

\* The orchestrator moves to the next declaration (or returns).
NextDecl(p) ==
  [p EXCEPT !.k = @ + 1, !.pc = "start", !.loc = InitLocals,
            !.res = [nodes |-> << >>, rels |-> << >>],
            !.status = IF p.k + 1 > Len(p.decls) THEN "done" ELSE "running"]

\* The builder returned its result for the current declaration.
Return(p) ==
  IF p.kind = "batch"
    THEN NextDecl([p EXCEPT !.all = [components_count |-> @.components_count + 1,
                                     relationships_count |->
                                        @.relationships_count + Len(p.res.rels),
                                     nodes |-> AddNewNodes(@.nodes, p.res.nodes),
                                     rels |-> @.rels \o p.res.rels],
                           !.outcome = Append(@, "ok")])
  ELSE IF p.kind = "files"
    THEN NextDecl([p EXCEPT !.successful = Append(@, [file |-> p.decls[p.k].name,
                                                  nodes_created |-> Len(p.res.nodes),
                                                  relationships_created |-> Len(p.res.rels)]),
                           !.outcome = Append(@, "ok")])
  ELSE [p EXCEPT !.status = "done", !.outcome = Append(@, "ok")]

\* An orchestrator without a handler: the exception leaves the batch call.
RaiseUncaught(p, error) == [p EXCEPT !.status = "raised", !.outcome = Append(@, "error")]

\* An exception leaves the builder: build_data_vault logs it and continues,
\* the endpoint appends it to errors and continues, a single call fails.
Raise(p, error) ==
  IF p.kind = "batch"
    THEN NextDecl([p EXCEPT !.outcome = Append(@, "error")])
  ELSE IF p.kind = "files"
    THEN NextDecl([p EXCEPT !.errors = Append(@, [file |-> p.decls[p.k].name,
                                                  error |-> error]),
                           !.outcome = Append(@, "error")])
  ELSE [p EXCEPT !.status = "raised", !.outcome = Append(@, "error")]

\* The outcomes of a create_node call that may also fail in the store.
NodeWrites(st, node, canFail) ==
  {[ok |-> r.ok, st |-> r.st, id |-> r.id, fault |-> FALSE] : r \in create_node(st, node)}
  \cup (IF canFail THEN {[ok |-> FALSE, st |-> st, id |-> NoId, fault |-> TRUE]} ELSE {})

\* The outcomes of a create_relationship call that may also fail in the store.
RelWrites(st, rel, canFail) ==
  {[ok |-> r.ok, st |-> r.st, id |-> r.id, fault |-> FALSE] :
     r \in create_relationship(st, rel)}
  \cup (IF canFail THEN {[ok |-> FALSE, st |-> st, id |-> NoId, fault |-> TRUE]} ELSE {})

\* A step that calls nothing in the store.
Local(p, st) == {[p |-> p, st |-> st, fault |-> FALSE]}

\* A builder that writes the CONTAINS edge of a node also when it took the
\* node from the cache.
UpsertAlwaysContains(p, st, canFail, key, node, field, pcHit, pcMiss) ==
  IF UsesCache(p) /\ key \in DOMAIN p.cache
    THEN Local([p EXCEPT !.loc[field] = p.cache[key], !.pc = pcMiss], st)
    ELSE {IF w.ok
            THEN [p |-> [p EXCEPT !.loc[field] = w.id,
                                  !.cache = IF UsesCache(p) THEN Put(@, key, w.id) ELSE @,
                                  !.res.nodes = Append(@, [id |-> w.id, name |-> node.name,
                                                           type |-> node.node_type]),
                                  !.pc = pcMiss],
                  st |-> w.st, fault |-> FALSE]
            ELSE [p |-> Raise(p, "create_node"), st |-> st, fault |-> w.fault]
          : w \in NodeWrites(st, node, canFail)}

\* "Create ... node (or reuse existing one)": the cached id on a hit, else
\* create_node, the cache entry and the entry of results["nodes"].
Upsert(p, st, canFail, key, node, field, pcHit, pcMiss) ==
  IF UsesCache(p) /\ key \in DOMAIN p.cache
    THEN Local([p EXCEPT !.loc[field] = p.cache[key], !.pc = pcHit], st)
    ELSE {IF w.ok
            THEN [p |-> [p EXCEPT !.loc[field] = w.id,
                                  !.cache = IF UsesCache(p) THEN Put(@, key, w.id) ELSE @,
                                  !.res.nodes = Append(@, [id |-> w.id, name |-> node.name,
                                                           type |-> node.node_type]),
                                  !.pc = pcMiss],
                  st |-> w.st, fault |-> FALSE]
            ELSE [p |-> Raise(p, "create_node"), st |-> st, fault |-> w.fault]
          : w \in NodeWrites(st, node, canFail)}

\* create_relationship and the entry of results["relationships"]; q is the
\* frame after the call.
Relate(p, q, st, canFail, rel, source, target) ==
  {IF w.ok
     THEN [p |-> [q EXCEPT !.res.rels = Append(@, [id |-> w.id,
                                                   type |-> rel.relationship_type,
                                                   source |-> source, target |-> target])],
           st |-> w.st, fault |-> FALSE]
     ELSE [p |-> Raise(p, "create_relationship"), st |-> st, fault |-> w.fault]
   : w \in RelWrites(st, rel, canFail)}

\* f"Source table for {target_table}": a different text for each target
\* table, here the name of the target table itself.
source_table_description(target_table) == target_table

\* A property set only when its value is truthy ("if entity_type:").
Truthy(v) == IF Falsy(v) THEN NULL ELSE v

\* The description of a new target column (lines 1077-1083).  The local
\* variable `source` is assigned further down (line 1120): it still holds the
\* descriptor of the previous column entry, and before the first entry it is
\* not bound at all.
target_column_description(column, source) ==
  IF column.description # NULL THEN column.description
  ELSE IF source.kind = "dict" /\ source.description # NULL THEN source.description
  ELSE EMPTY

\* One step of build_detailed_data_vault_with_cache (lines 855-1257) or of
\* build_detailed_data_vault (lines 1259-1567) inside its caller: from the
\* position pc up to and including the next call of the store.  The result is
\* the set of possible outcomes: the frame and the store after the step, and
\* whether a store failure was injected.
Step(p, st, now, canFail) ==
  LET d == p.decls[p.k]
      L == p.loc
      column == d.columns[L.i]
      name == L.names[L.j]
      entity_type == Get(d.target_entity_type, "hub")
  IN
  CASE p.pc = "start" ->
         IF p.kind = "batch" /\ d.yaml = "none"
           THEN Local(NextDecl([p EXCEPT !.outcome = Append(@, "skipped")]), st)
         ELSE IF d.yaml # "dict"
           THEN Local(Raise(p, "Invalid YAML content"), st)
         ELSE IF p.kind = "files" /\ \E f \in {"source_schema", "source_table",
                                            "target_schema", "target_table"} : d[f] = NULL
           THEN Local(Raise(p, "Missing required fields"), st)
         ELSE IF MissingRequired(d)
           THEN Local(Raise(p, "Missing required fields in YAML content"), st)
         ELSE Local([p EXCEPT !.pc = "source_schema"], st)
    [] p.pc = "source_schema" ->
         Upsert(p, st, canFail, <<"source_schemas", d.source_schema>>,
                SourceSchemaNode(d.source_schema, "Unknown", now),
                "source_schema", "target_schema", "target_schema")
    [] p.pc = "target_schema" ->
         Upsert(p, st, canFail, <<"target_schemas", d.target_schema>>,
                TargetSchemaNode(d.target_schema, now),
                "target_schema", "source_table", "source_table")
    [] p.pc = "source_table" ->
         Upsert(p, st, canFail, <<"source_tables", d.source_schema, d.source_table>>,
                SourceTableNode(d.source_table, d.source_schema,
                                source_table_description(d.target_table), now),
                "source_table", "target_table", "source_table_contains")
    [] p.pc = "source_table_contains" ->
         Relate(p, [p EXCEPT !.pc = "target_table"], st, canFail,
                ContainsRelationship(L.source_schema, L.source_table, now),
                d.source_schema, d.source_table)
    [] p.pc = "target_table" ->
         Upsert(p, st, canFail, <<"target_tables", d.target_schema, d.target_table>>,
                TargetTableNode(d.target_table, d.target_schema, Get(d.description, EMPTY),
                                entity_type, d.collision_code, now),
                "target_table", "transforms_to", "target_table_contains")
    [] p.pc = "target_table_contains" ->
         Relate(p, [p EXCEPT !.pc = "transforms_to"], st, canFail,
                ContainsRelationship(L.target_schema, L.target_table, now),
                d.target_schema, d.target_table)
    [] p.pc = "transforms_to" ->
         Relate(p, [p EXCEPT !.pc = "column", !.loc.i = 1], st, canFail,
                TransformsToRelationship(L.source_table, L.target_table,
                                         Truthy(entity_type), Truthy(d.collision_code),
                                         NULL, now),
                d.source_table, d.target_table)
    [] p.pc = "column" ->
         IF L.i > Len(d.columns) THEN Local(Return(p), st)
         ELSE IF column.target = NULL THEN Local([p EXCEPT !.loc.i = @ + 1], st)
         ELSE IF ~ UsesCache(p)
           THEN Upsert(p, st, canFail, << >>,
                       TargetColumnNode(column.target, d.target_table, d.target_schema,
                                        Get(column.dtype, "VARCHAR"), column.key_type,
                                        NULL, now),
                       "target_column", "target_column_contains", "target_column_contains")
         ELSE IF /\ <<"target_columns", d.target_schema, d.target_table, column.target>>
                      \notin DOMAIN p.cache
                 /\ column.description = NULL
                 /\ L.source.kind = "unbound"
           THEN Local(Raise(p, "UnboundLocalError"), st)
         ELSE Upsert(p, st, canFail,
                     <<"target_columns", d.target_schema, d.target_table, column.target>>,
                     TargetColumnNode(column.target, d.target_table, d.target_schema,
                                      Get(column.dtype, "VARCHAR"), column.key_type,
                                      target_column_description(column, L.source), now),
                     "target_column", "source", "target_column_contains")
    [] p.pc = "target_column_contains" ->
         Relate(p, [p EXCEPT !.pc = "source"], st, canFail,
                ContainsRelationship(L.target_table, L.target_column, now),
                d.target_table, column.target)
    [] p.pc = "source" ->
         LET source == column.source
             names == source_column_names(source)
             q == [p EXCEPT !.loc.source = source, !.loc.names = names, !.loc.j = 1,
                            !.pc = "names"]
         IN
         IF source.kind = "dict" /\ source.name # NULL
           THEN IF ~ UsesCache(p) /\ source.name \in DOMAIN L.source_column_ids
                  THEN Local(q, st)
                  ELSE {[o EXCEPT !.p = IF ~ o.fault
                                          THEN [o.p EXCEPT
                                                  !.loc.source_column_ids =
                                                     Put(@, source.name, o.p.loc.source_column)]
                                          ELSE o.p]
                        : o \in Upsert(q, st, canFail,
                                       <<"source_columns", d.source_schema, d.source_table,
                                         source.name>>,
                                       SourceColumnNode(source.name, d.source_table,
                                                        d.source_schema,
                                                        Get(source.dtype, "VARCHAR"),
                                                        Get(source.description, EMPTY), now),
                                       "source_column", "names", "source_contains")}
           ELSE Local(q, st)
    [] p.pc = "source_contains" ->
         Relate(p, [p EXCEPT !.pc = "names"], st, canFail,
                ContainsRelationship(L.source_table, L.source_column, now),
                d.source_table, L.names[1])
    [] p.pc = "names" ->
         IF L.j > Len(L.names) THEN Local([p EXCEPT !.loc.i = @ + 1, !.pc = "column"], st)
         ELSE IF /\ <<"source_columns", d.source_schema, d.source_table, name>>
                      \notin DOMAIN p.cache
                 /\ name \in DOMAIN L.source_column_ids
           THEN Local([p EXCEPT !.pc = "column_transforms_to"], st)
         ELSE {[o EXCEPT !.p = IF ~ o.fault
                                 THEN [o.p EXCEPT
                                         !.loc.source_column_ids =
                                            Put(@, name, o.p.loc.source_column)]
                                 ELSE o.p]
               : o \in Upsert(p, st, canFail,
                              <<"source_columns", d.source_schema, d.source_table, name>>,
                              SourceColumnNode(name, d.source_table, d.source_schema,
                                               "VARCHAR", NULL, now),
                              "source_column", "column_transforms_to", "name_contains")}
    [] p.pc = "name_contains" ->
         Relate(p, [p EXCEPT !.pc = "column_transforms_to"], st, canFail,
                ContainsRelationship(L.source_table, L.source_column, now),
                d.source_table, name)
    [] p.pc = "column_transforms_to" ->
         Relate(p, [p EXCEPT !.loc.j = @ + 1, !.pc = "names"], st, canFail,
                TransformsToRelationship(L.source_column_ids[name], L.target_column,
                                         NULL, NULL, Truthy(column.key_type), now),
                name, column.target)

\* ------------------------------------------------------------------------
\* State
\* ------------------------------------------------------------------------
VARIABLES
  store,   \* the Neo4j database: nodes, edges and the two id counters
  clock,   \* datetime.utcnow()
  calls,   \* the direct calls of the adapter made so far, with their results
  procs,   \* the running builder invocations (call frames)
  faults,  \* the store writes that have failed so far
  components  \* the rows of the table data_vault_components

vars == <<store, clock, calls, procs, faults, components>>

\* Time passes.  Only the order of the clock readings matters, so the clock
\* moves on only from a reading that some stored timestamp has used.
Tick ==
  /\ clock < MaxClock
  /\ \E x \in store.nodes \cup store.edges : clock \in {x.created_at, x.updated_at}
  /\ clock' = clock + 1
  /\ UNCHANGED <<store, calls, procs, faults, components>>

\* ------------------------------------------------------------------------
\* Builder invocations
\* ------------------------------------------------------------------------
Running(i) == i \in DOMAIN procs /\ procs[i].status = "running"

\* The sequences over a set of length 1..n.
SeqsUpTo(S, n) == UNION {[1..m -> S] : m \in 1..n}

\* A caller starts an invocation of `kind` on a list of declarations.
Start(kind, decls) ==
  /\ procs' = Append(procs, NewFrame(kind, decls))
  /\ UNCHANGED <<store, clock, calls, faults, components>>

\* The invocation i runs up to and including its next call of the store.
StepProc(i) ==
  /\ Running(i)
  /\ \E o \in Step(procs[i], store, clock, FALSE) :
       /\ procs' = [procs EXCEPT ![i] = o.p]
       /\ store' = o.st
  /\ UNCHANGED <<clock, calls, faults, components>>

\* The next call of the store by invocation i fails (a Neo4jError).
FaultProc(i) ==
  /\ Running(i)
  /\ faults < MaxFaults
  /\ \E o \in Step(procs[i], store, clock, TRUE) :
       /\ o.fault
       /\ procs' = [procs EXCEPT ![i] = o.p]
       /\ store' = o.st
  /\ faults' = faults + 1
  /\ UNCHANGED <<clock, calls, components>>

\* The task running invocation i is cancelled between two store calls.
Cancel(i) ==
  /\ Running(i)
  /\ procs' = [procs EXCEPT ![i].status = "cancelled"]
  /\ UNCHANGED <<store, clock, calls, faults, components>>

\* The invocation run to its end without a store failure and with the clock
\* standing still: the set of possible final outcomes.
RECURSIVE Run(_, _, _)
Run(p, st, now) ==
  IF p.status # "running" THEN {[p |-> p, st |-> st]}
  ELSE UNION {Run(o.p, o.st, now) : o \in Step(p, st, now, FALSE)}

\* ------------------------------------------------------------------------
\* Declarations used by the specifications
\* ------------------------------------------------------------------------
\* The two declarations of the CRM scenario.
D1 ==
  Decl("D1", "CRM", "CUSTOMER", "INTEGRATION", "HUB_CUSTOMER", "hub", NULL,
       <<Col("DV_HKEY_HUB_CUSTOMER", NULL, NULL, SrcList(<<Str("CUST_ID")>>)),
         Col("CUST_ID", "biz_key", NULL, SrcStr("CUST_ID"))>>)
D2 ==
  Decl("D2", "CRM", "CUSTOMER", "INTEGRATION", "SAT_CUSTOMER_DETAILS", "satellite", NULL,
       <<Col("EMAIL", NULL, NULL, SrcDict("EMAIL_ADDR", NULL))>>)

\* The same two with a description on every column entry.
D1d ==
  [D1 EXCEPT !.name = "D1d",
             !.columns = [x \in DOMAIN D1.columns |-> [D1.columns[x] EXCEPT !.description = "d"]]]
D2d ==
  [D2 EXCEPT !.name = "D2d",
             !.columns = [x \in DOMAIN D2.columns |-> [D2.columns[x] EXCEPT !.description = "d"]]]

\* A third declaration of the hub, from another source column.
D3 ==
  Decl("D3", "CRM", "CUSTOMER", "INTEGRATION", "HUB_CUSTOMER", "hub", "c1",
       <<Col("CUST_ID", "biz_key", NULL, SrcStr("CUST_NO"))>>)

\* Declarations that lack a coordinate: the key is absent or its value is
\* empty.
Required == {"source_schema", "source_table", "target_schema", "target_table"}
EmptyName ==
  [source_schema |-> "empty_source_schema", source_table |-> "empty_source_table",
   target_schema |-> "empty_target_schema", target_table |-> "empty_target_table"]
Malformed(f, v) == [D3 EXCEPT !.name = IF v = NULL THEN f ELSE EmptyName[f], ![f] = v]

BatchCatalog == {D1, D2, D1d, D3}

\* Declarations with and without their coordinates.
ValidationCatalog ==
  {D1, D2d} \cup {Malformed(f, NULL) : f \in Required}
           \cup {Malformed("source_schema", EMPTY)}

\* ------------------------------------------------------------------------
\* One batch on an empty store
\* ------------------------------------------------------------------------
StartBatch ==
  /\ procs = << >>
  /\ \E kind \in {"batch", "files"}, decls \in SeqsUpTo(BatchCatalog, MaxBatch) :
       Start(kind, decls)

StepBatch == StepProc(1)

InitBatch ==
  /\ store = EmptyStore
  /\ clock = 0
  /\ calls = [n |-> 0, log |-> {}]
  /\ procs = << >>
  /\ faults = 0
  /\ components = << >>

NextBatch == Tick \/ StartBatch \/ StepBatch

SpecBatch == InitBatch /\ [][NextBatch]_vars

\* A batch in which declarations may lack a coordinate.
StartValidation ==
  /\ procs = << >>
  /\ \E kind \in {"batch", "files"} :
       \E decls \in SeqsUpTo(ValidationCatalog, MaxBatch) : Start(kind, decls)

StepValidation == StepProc(1)

NextValidation == Tick \/ StartValidation \/ StepValidation

SpecValidation == InitBatch /\ [][NextValidation]_vars

\* ------------------------------------------------------------------------
\* Properties of one batch
\* ------------------------------------------------------------------------
Done(i) == i \in DOMAIN procs /\ procs[i].status = "done"

\* The uniqueness fields of each category (the natural key).
NaturalKey(label) ==
  CASE label \in {"SourceSystem", "SourceSchema", "TargetSchema", "DataVaultComponent"}
         -> {"name"}
    [] label = "Schema" -> {"name", "source_system"}
    [] label \in {"SourceTable", "TargetTable", "Table"} -> {"schema", "name"}
    [] label \in {"SourceColumn", "TargetColumn", "Column"} -> {"schema", "table", "name"}

\* A node by category and natural key.
KeyOf(n) == [f \in {"node_type"} \cup NaturalKey(n.node_type) |-> n[f]]
NodeById(st, id) == CHOOSE n \in st.nodes : n.id = id

\* The graph by category and natural key: its nodes, and its CONTAINS and
\* TRANSFORMS_TO edges between them.
CanonNodes(st) == {KeyOf(n) : n \in st.nodes}
CanonEdge(st, e) ==
  [relationship_type |-> e.relationship_type,
   source |-> KeyOf(NodeById(st, e.source_id)),
   target |-> KeyOf(NodeById(st, e.target_id))]
LineageEdges(st) == {e \in st.edges : e.relationship_type \in {"CONTAINS", "TRANSFORMS_TO"}}
CanonEdges(st) == {CanonEdge(st, e) : e \in LineageEdges(st)}
NoDuplicatedEdge(st) ==
  \A e \in LineageEdges(st) : \A g \in LineageEdges(st) :
    CanonEdge(st, e) = CanonEdge(st, g) => e.id = g.id

\* The orders a list can be processed in.
Orders(seq) ==
  {[x \in DOMAIN seq |-> seq[f[x]]] :
     f \in {g \in [DOMAIN seq -> DOMAIN seq] : \A x, y \in DOMAIN seq : x # y => g[x] # g[y]}}

\* C4: every permutation of a batch, run with one shared cache from the
\* same store state, ends with the same set of nodes (by category and natural
\* key) and the same set of CONTAINS and TRANSFORMS_TO edges, none duplicated.
C4_BatchOrderConfluent ==
  Done(1) =>
    /\ NoDuplicatedEdge(store)
    /\ \A perm \in Orders(procs[1].decls) :
         \A o \in Run(NewFrame(procs[1].kind, perm), EmptyStore, 0) :
           /\ CanonNodes(o.st) = CanonNodes(store)
           /\ CanonEdges(o.st) = CanonEdges(store)

\* A declaration that misses one of its four coordinates.
LacksCoordinate(d) == \E f \in Required : Falsy(d[f])

\* The declarations of invocation i that have all four coordinates.
Accepted(i) == {k \in DOMAIN procs[i].decls :
                  procs[i].decls[k].yaml = "dict" /\ ~ LacksCoordinate(procs[i].decls[k])}

SourceTables(st, d) ==
  {n \in st.nodes : /\ n.node_type = "SourceTable"
                    /\ n.schema = d.source_schema /\ n.name = d.source_table}
TargetTables(st, d) ==
  {n \in st.nodes : /\ n.node_type = "TargetTable"
                    /\ n.schema = d.target_schema /\ n.name = d.target_table}

\* The table-level TRANSFORMS_TO edges that end in the target table of d.
TableTransforms(st, d) ==
  {e \in st.edges : /\ e.relationship_type = "TRANSFORMS_TO"
                    /\ e.target_id \in {n.id : n \in TargetTables(st, d)}}

Untimed(st) ==
  [nodes |-> {[f \in DOMAIN n \ {"created_at", "updated_at"} |-> n[f]] : n \in st.nodes},
   edges |-> {[f \in DOMAIN e \ {"created_at", "updated_at"} |-> e[f]] : e \in st.edges},
   nextNode |-> st.nextNode, nextRel |-> st.nextRel, constraints |-> st.constraints]

\* The declarations of a list that have all four coordinates.
RECURSIVE WellFormed(_)
WellFormed(decls) ==
  IF decls = << >> THEN << >>
  ELSE IF LacksCoordinate(Head(decls)) THEN WellFormed(Tail(decls))
       ELSE <<Head(decls)>> \o WellFormed(Tail(decls))

\* The current declaration of invocation i is about to be validated and lacks
\* a coordinate.
AtMalformed(i) ==
  /\ Running(i) /\ procs[i].pc = "start"
  /\ procs[i].decls[procs[i].k].yaml = "dict"
  /\ LacksCoordinate(procs[i].decls[procs[i].k])

\* C6, the step: a declaration that lacks a coordinate is rejected with an
\* error and neither the store nor the cache changes.
C6_RejectedBeforeAnyWrite ==
  AtMalformed(1) /\ procs'[1] # procs[1]
  => /\ store' = store
     /\ procs'[1].cache = procs[1].cache
     /\ procs'[1].outcome = Append(procs[1].outcome, "error")
     /\ procs'[1].k = procs[1].k + 1

\* C6, the batch: the batch ends as the batch without the declarations that
\* lack a coordinate ends: same store, same cache, same accumulated results.
C6_SiblingsUnaffected ==
  (Done(1) /\ WellFormed(procs[1].decls) # << >>) =>
    \A o \in Run(NewFrame(procs[1].kind, WellFormed(procs[1].decls)), EmptyStore, 0) :
      /\ Untimed(o.st) = Untimed(store)
      /\ o.p.cache = procs[1].cache
      /\ o.p.all = procs[1].all
      /\ o.p.successful = procs[1].successful

\* C6: a declaration missing a required coordinate is rejected with an error
\* before any write (store and cache unchanged), and the other declarations
\* of the batch are processed with unchanged results.
C6_FailFastOnMalformed ==
  [][C6_RejectedBeforeAnyWrite]_vars /\ [](C6_SiblingsUnaffected)

\* A batch that held a declaration without a coordinate next to a
\* declaration that was processed in full has ended.
C6_Witness ==
  /\ Done(1)
  /\ \E k \in DOMAIN procs[1].decls :
       /\ LacksCoordinate(procs[1].decls[k])
       /\ procs[1].outcome[k] = "error"
       /\ \E a \in Accepted(1) : procs[1].outcome[a] = "ok"
  /\ store.nodes # {}

\* The nodes of one category with the given name.
Named(st, label, name) == {n \in st.nodes : n.node_type = label /\ n.name = name}

\* C7: the batch <<D1, D2>> on an empty store yields one SourceSchema(CRM),
\* one SourceTable(CRM.CUSTOMER), one SourceColumn CUST_ID, one SourceColumn
\* EMAIL_ADDR, two TargetTable nodes and two table-level TRANSFORMS_TO edges.
C7_Scenario ==
  (Done(1) /\ procs[1].decls = <<D1, D2>>) =>
    /\ Cardinality(Named(store, "SourceSchema", "CRM")) = 1
    /\ Cardinality(Named(store, "SourceTable", "CUSTOMER")) = 1
    /\ Cardinality(Named(store, "SourceColumn", "CUST_ID")) = 1
    /\ Cardinality(Named(store, "SourceColumn", "EMAIL_ADDR")) = 1
    /\ Cardinality({n \in store.nodes : n.node_type = "TargetTable"}) = 2
    /\ Cardinality(TableTransforms(store, D1) \cup TableTransforms(store, D2)) = 2

\* Two declarations of the same source table and target table.
SamePair(da, db) ==
  /\ da.source_schema = db.source_schema /\ da.source_table = db.source_table
  /\ da.target_schema = db.target_schema /\ da.target_table = db.target_table

\* C11: of two declarations of one (source table, target table) pair that
\* differ in entity kind or collision code, the one processed last decides
\* the entity_type and collision_code of the table-level TRANSFORMS_TO edge.
C11_LastDeclarationWins ==
  Done(1) =>
    \A a \in Accepted(1) : \A b \in Accepted(1) :
      LET da == procs[1].decls[a]
          db == procs[1].decls[b] IN
      (/\ a < b
       /\ SamePair(da, db)
       /\ \/ da.target_entity_type # db.target_entity_type
          \/ da.collision_code # db.collision_code
       /\ \A c \in Accepted(1) : c > b => ~ SamePair(procs[1].decls[c], db))
      => \A e \in TableTransforms(store, db) :
           /\ e.entity_type = Get(db.target_entity_type, "hub")
           /\ e.collision_code = db.collision_code

\* ------------------------------------------------------------------------
\* The adapter called directly
\* ------------------------------------------------------------------------
\* The node objects a caller of the adapter passes: one natural key per
\* category, with and without a description for two of them.
NodeInputs(now) ==
  {SourceSystemNode("a", "x", now),
   SchemaNode("a", "sys", now), SourceSchemaNode("a", "sys", now),
   TargetSchemaNode("a", now),
   TargetTableNode("a", "s", "x", "hub", NULL, now),
   SourceColumnNode("a", "t", "s", "VARCHAR", "x", now),
   ColumnNode("a", "t", "s", "VARCHAR", "x", now),
   DataVaultNode("a", "x", "s", now)}
  \cup {TableNode("a", "s", d, now) : d \in {"x", "y"}}
  \cup {SourceTableNode("a", "s", d, now) : d \in {NULL, "x"}}
  \cup {TargetColumnNode("a", "t", "s", "VARCHAR", NULL, d, now) : d \in {NULL, "x"}}

\* What the caller supplied: the node object without its two timestamps.
Supplied(node) == [f \in NodeFields \cup {"node_type"} |-> node[f]]

\* The record of one adapter call: rep is 1 for the first call with these
\* arguments and 2 for every later one.
Logged(op, arg, id, ok) ==
  [op |-> op, arg |-> arg, id |-> id, ok |-> ok,
   rep |-> IF \E c \in calls.log : c.op = op /\ c.arg = arg THEN 2 ELSE 1]

\* A caller upserts a node.
AdapterCreateNode ==
  /\ calls.n < MaxCalls
  /\ \E node \in NodeInputs(clock) : \E r \in create_node(store, node) :
       /\ store' = r.st
       /\ calls' = [n |-> calls.n + 1,
                    log |-> calls.log \cup {Logged("node", Supplied(node), r.id, r.ok)}]
  /\ UNCHANGED <<clock, procs, faults, components>>

\* A caller upserts a relationship between two node ids.
AdapterCreateRelationship ==
  /\ calls.n < MaxCalls
  /\ \E type \in {"CONTAINS", "TRANSFORMS_TO"}, s \in 0..1, t \in 0..1 :
       LET rel == RelationshipBase(type, s, t, NULL, NULL, NULL, clock) IN
       \E r \in create_relationship(store, rel) :
         /\ store' = r.st
         /\ calls' = [n |-> calls.n + 1,
                      log |-> calls.log \cup
                        {Logged("rel", [relationship_type |-> type, source_id |-> s,
                                        target_id |-> t], r.id, r.ok)}]
  /\ UNCHANGED <<clock, procs, faults, components>>

InitAdapter ==
  /\ store = EmptyStore
  /\ clock = 0
  /\ calls = [n |-> 0, log |-> {}]
  /\ procs = << >>
  /\ faults = 0
  /\ components = << >>

NextAdapter == Tick \/ AdapterCreateNode \/ AdapterCreateRelationship

SpecAdapter == InitAdapter /\ [][NextAdapter]_vars

\* The stored nodes of one category with the natural key of `arg`.
NodesWithKey(st, arg) ==
  {n \in st.nodes : /\ n.node_type = arg.node_type
                    /\ \A f \in NaturalKey(arg.node_type) : n[f] = arg[f]}

\* C1: two create_node calls with the same natural key and identical
\* supplied properties return the same node id, and the store holds exactly
\* one node with that natural key.
C1_NodeUpsertIdempotent ==
  \A c \in calls.log : \A d \in calls.log :
    (c.op = "node" /\ d.op = "node" /\ c.arg = d.arg /\ d.rep = 2)
    => /\ c.id = d.id
       /\ Cardinality(NodesWithKey(store, c.arg)) = 1

\* The stored edges of one type between two node ids.
EdgesBetween(st, type, s, t) ==
  {e \in st.edges : e.relationship_type = type /\ e.source_id = s /\ e.target_id = t}

\* C2: create_relationship repeated with the same (type, source id, target
\* id) returns the same edge id every time, and the store holds exactly one
\* edge of that type between the two nodes.
C2_RelationshipUpsertIdempotent ==
  \A c \in calls.log : \A d \in calls.log :
    (c.op = "rel" /\ d.op = "rel" /\ c.ok /\ d.ok /\ c.arg = d.arg)
    => /\ c.id = d.id
       /\ Cardinality(EdgesBetween(store, c.arg.relationship_type,
                                   c.arg.source_id, c.arg.target_id)) = 1

\* The same relationship was upserted a second time, later than the first.
C2_Witness ==
  \E d \in calls.log :
    /\ d.op = "rel" /\ d.ok /\ d.rep = 2
    /\ \E e \in store.edges : e.id = d.id /\ e.updated_at # e.created_at

\* The call of the adapter that the step makes, when it is a create_node
\* call with arguments not seen before.
NewNodeCalls == {c \in calls'.log \ calls.log : c.op = "node"}

\* The stored nodes with the natural key of `arg` on which a property that
\* `arg` supplies has another value.
NodesToRefresh(st, arg) ==
  {n \in NodesWithKey(st, arg) : \E f \in NodeFields : arg[f] # NULL /\ n[f] # arg[f]}

\* C12: upserting a node whose natural key exists, with a new value for a
\* non-key property, keeps the id of the node, adds no node, and sets the
\* property to the supplied value together with updated_at.
C12_MatchedNodeRefreshed ==
  [][\A c \in NewNodeCalls :
       NodesToRefresh(store, c.arg) # {}
       => /\ c.id \in {n.id : n \in NodesToRefresh(store, c.arg)}
          /\ Cardinality(NodesWithKey(store', c.arg)) = Cardinality(NodesWithKey(store, c.arg))
          /\ \A m \in store'.nodes :
               m.id = c.id => /\ \A f \in NodeFields : c.arg[f] # NULL => m[f] = c.arg[f]
                              /\ m.updated_at = clock]_vars

\* C13: whatever is upserted, a stored node or edge keeps the created_at it
\* was created with; a matching upsert changes updated_at only.
C13_CreatedAtPreserved ==
  [][/\ \A n \in store.nodes : \E m \in store'.nodes :
          m.id = n.id /\ m.created_at = n.created_at
     /\ \A e \in store.edges : \E g \in store'.edges :
          g.id = e.id /\ g.created_at = e.created_at]_vars

\* A node has been matched by an upsert made later than its creation.
C13_Witness ==
  \E n \in store.nodes : n.updated_at # n.created_at

\* ------------------------------------------------------------------------
\* The metadata builders
\* ------------------------------------------------------------------------
\* The hierarchical metadata of the metadata store: a sequence of source
\* systems, each with its tables, each table with its columns.
ColumnMetadata(name, is_foreign_key, foreign_key_table, foreign_key_column) ==
  [name |-> name, data_type |-> "int", description |-> NULL,
   is_foreign_key |-> is_foreign_key, foreign_key_table |-> foreign_key_table,
   foreign_key_column |-> foreign_key_column]
TableMetadata(schema, name, columns) ==
  [schema |-> schema, name |-> name, description |-> NULL, columns |-> columns]
SourceSystemMetadata(name, tables) ==
  [name |-> name, description |-> NULL, tables |-> tables]

\* convert_to_hierarchical for one source system with one table of one
\* column (no foreign key).
Hierarchy(source_system, schema, table, column) ==
  <<SourceSystemMetadata(source_system,
      <<TableMetadata(schema, table, <<ColumnMetadata(column, FALSE, NULL, NULL)>>)>>)>>

\* f"Source system: {name}", written as the name it is made of.
source_system_description(name) == name

ReferencesRelationship(source_id, target_id, now) ==
  RelationshipBase("REFERENCES", source_id, target_id, NULL, NULL, NULL, now)

\* A build in progress: the store, whether no call has raised, the ids the
\* build holds (id is that of the last node call), results["nodes"] as the
\* set `seen` of its ids, node_cache["source_columns"], and the warnings the
\* build has recorded (neither build has a statement that records one).
NewBuild(st) ==
  [st |-> st, ok |-> TRUE, id |-> NoId, ss_id |-> NoId, schema_id |-> NoId,
   table_id |-> NoId, seen |-> {}, source_columns |-> EmptyMap, warnings |-> << >>]

\* The builds that go on from the builds S by the step F; a build in which a
\* call has raised has ended.
Bind(S, F(_)) == UNION {IF b.ok THEN F(b) ELSE {b} : b \in S}

BuildNode(b, node) ==
  {[b EXCEPT !.st = o.st, !.ok = o.ok, !.id = o.id] : o \in create_node(b.st, node)}
BuildRel(b, rel) ==
  {[b EXCEPT !.st = r.st, !.ok = r.ok] : r \in create_relationship(b.st, rel)}

\* The first element of a sequence with that name, as a set of at most one.
FirstNamed(seq, name) ==
  {seq[x] : x \in {y \in DOMAIN seq : seq[y].name = name /\ \A z \in 1..(y - 1) : seq[z].name # name}}

IsForeignKey(column) ==
  column.is_foreign_key /\ ~ Falsy(column.foreign_key_table) /\ ~ Falsy(column.foreign_key_column)

\* find_nodes_by_properties: MATCH (n:<node_type>) WHERE every property is
\* equal.
find_nodes_by_properties(st, node_type, properties) ==
  {n \in st.nodes : n.node_type = node_type /\ \A f \in DOMAIN properties : n[f] = properties[f]}

\* Lines 186-245: the foreign keys of one table, looked up in the store right
\* after the columns of that table; [0] of a result is any node of it.
RECURSIVE MetadataForeignKeys(_, _, _, _, _)
MetadataForeignKeys(b, source_system, table, columns, now) ==
  IF columns = << >> THEN {b}
  ELSE LET column == Head(columns)
           current == find_nodes_by_properties(b.st, "Column",
                        [name |-> column.name, table |-> table.name, schema |-> table.schema])
           written ==
             IF ~ IsForeignKey(column) THEN {b}
             ELSE UNION {UNION {
                    LET referenced == find_nodes_by_properties(b.st, "Column",
                                        [name |-> rc.name, table |-> rt.name,
                                         schema |-> table.schema])
                    IN  IF current = {} \/ referenced = {} THEN {b}
                        ELSE UNION {BuildRel(b, ReferencesRelationship(c.id, r.id, now)) :
                                      c \in current, r \in referenced} :
                      rc \in FirstNamed(rt.columns, column.foreign_key_column)} :
                    rt \in FirstNamed(source_system.tables, column.foreign_key_table)}
       IN  Bind(IF written = {} THEN {b} ELSE written,
                LAMBDA c : MetadataForeignKeys(c, source_system, table, Tail(columns), now))

RECURSIVE MetadataColumns(_, _, _, _)
MetadataColumns(b, table, columns, now) ==
  IF columns = << >> THEN {b}
  ELSE LET column == Head(columns) IN
       Bind(Bind(BuildNode(b, ColumnNode(column.name, table.name, table.schema,
                                         column.data_type, column.description, now)),
                 LAMBDA c : BuildRel(c, ContainsRelationship(c.table_id, c.id, now))),
            LAMBDA c : MetadataColumns(c, table, Tail(columns), now))

\* One table of build_source_metadata_graph: schema, table, columns, then
\* the foreign keys of the table; every node and CONTAINS edge is upserted.
MetadataTable(b, source_system, table, now) ==
  LET schema == Bind(BuildNode(b, SchemaNode(table.schema, source_system.name, now)),
                     LAMBDA c : BuildRel([c EXCEPT !.schema_id = c.id],
                                         ContainsRelationship(c.ss_id, c.id, now)))
      tables == Bind(Bind(schema, LAMBDA c : BuildNode(c, TableNode(table.name, table.schema,
                                                                   table.description, now))),
                     LAMBDA c : BuildRel([c EXCEPT !.table_id = c.id],
                                         ContainsRelationship(c.schema_id, c.id, now)))
  IN  Bind(Bind(tables, LAMBDA c : MetadataColumns(c, table, table.columns, now)),
           LAMBDA c : MetadataForeignKeys(c, source_system, table, table.columns, now))

RECURSIVE MetadataTables(_, _, _, _)
MetadataTables(b, source_system, tables, now) ==
  IF tables = << >> THEN {b}
  ELSE Bind(MetadataTable(b, source_system, Head(tables), now),
            LAMBDA c : MetadataTables(c, source_system, Tail(tables), now))

SystemNode(source_system, now) ==
  SourceSystemNode(source_system.name,
                   (IF ~ Falsy(source_system.description) THEN source_system.description
                    ELSE source_system_description(source_system.name)), now)

RECURSIVE MetadataSystems(_, _, _)
MetadataSystems(b, systems, now) ==
  IF systems = << >> THEN {b}
  ELSE Bind(Bind(BuildNode(b, SystemNode(Head(systems), now)),
                 LAMBDA c : MetadataTables([c EXCEPT !.ss_id = c.id], Head(systems),
                                           Head(systems).tables, now)),
            LAMBDA c : MetadataSystems(c, Tail(systems), now))

\* build_source_metadata_graph: the builds it can end as; a call of the
\* store that raises ends the build with what is written so far.
build_source_metadata_graph(st, h, now) == MetadataSystems(NewBuild(st), h, now)

\* NodeManagerService.get_or_create_*: MATCH (n:<label> {key}) and, when
\* nothing is found, create_node.  existing[0] is any of the nodes found.
get_or_create(st, label, key, node) ==
  LET existing == {n \in st.nodes :
                     n.node_type = label /\ \A f \in DOMAIN key : n[f] = key[f]} IN
  IF existing # {} THEN {[st |-> st, id |-> n.id, ok |-> TRUE] : n \in existing}
  ELSE create_node(st, node)

BuildGetOrCreate(b, label, key, node) ==
  {[b EXCEPT !.st = o.st, !.ok = o.ok, !.id = o.id] : o \in get_or_create(b.st, label, key, node)}

\* "Add to results if not already there", with the CONTAINS edge from parent
\* that is written only then.
AddToResults(b, parent, now) ==
  IF b.id \in b.seen THEN {b}
  ELSE BuildRel([b EXCEPT !.seen = @ \cup {b.id}], ContainsRelationship(parent, b.id, now))

\* Lines 452-493: the foreign keys of one table, looked up in node_cache
\* right after the columns of that table.
RECURSIVE EnhancedForeignKeys(_, _, _, _, _)
EnhancedForeignKeys(b, source_system, table, columns, now) ==
  IF columns = << >> THEN {b}
  ELSE LET column == Head(columns)
           current_column_id == b.source_columns[<<table.schema, table.name, column.name>>]
           written ==
             IF ~ IsForeignKey(column) THEN {b}
             ELSE UNION {UNION {
                    LET referenced_column_key == <<table.schema, rt.name, rc.name>>
                    IN  IF referenced_column_key \notin DOMAIN b.source_columns THEN {b}
                        ELSE BuildRel(b, ReferencesRelationship(
                                           current_column_id,
                                           b.source_columns[referenced_column_key], now)) :
                      rc \in FirstNamed(rt.columns, column.foreign_key_column)} :
                    rt \in FirstNamed(source_system.tables, column.foreign_key_table)}
       IN  Bind(IF written = {} THEN {b} ELSE written,
                LAMBDA c : EnhancedForeignKeys(c, source_system, table, Tail(columns), now))

RECURSIVE EnhancedColumns(_, _, _, _)
EnhancedColumns(b, table, columns, now) ==
  IF columns = << >> THEN {b}
  ELSE LET column == Head(columns)
           key == <<table.schema, table.name, column.name>> IN
       Bind(Bind(BuildGetOrCreate(b, "SourceColumnNode",
                                  [name |-> column.name, table |-> table.name,
                                   schema |-> table.schema],
                                  SourceColumnNode(column.name, table.name, table.schema,
                                                   column.data_type, column.description, now)),
                 LAMBDA c : AddToResults([c EXCEPT !.source_columns = Put(@, key, c.id)],
                                         c.table_id, now)),
            LAMBDA c : EnhancedColumns(c, table, Tail(columns), now))

\* One table of build_source_metadata_graph_enhanced.
EnhancedTable(b, source_system, table, now) ==
  LET schema == Bind(BuildGetOrCreate(b, "SourceSchemaNode", [name |-> table.schema],
                                      SourceSchemaNode(table.schema, source_system.name, now)),
                     LAMBDA c : AddToResults([c EXCEPT !.schema_id = c.id], c.ss_id, now))
      tables == Bind(Bind(schema,
                          LAMBDA c : BuildGetOrCreate(c, "SourceTableNode",
                                       [name |-> table.name, schema |-> table.schema],
                                       SourceTableNode(table.name, table.schema,
                                                       table.description, now))),
                     LAMBDA c : AddToResults([c EXCEPT !.table_id = c.id], c.schema_id, now))
  IN  Bind(Bind(tables, LAMBDA c : EnhancedColumns(c, table, table.columns, now)),
           LAMBDA c : EnhancedForeignKeys(c, source_system, table, table.columns, now))

RECURSIVE EnhancedTables(_, _, _, _)
EnhancedTables(b, source_system, tables, now) ==
  IF tables = << >> THEN {b}
  ELSE Bind(EnhancedTable(b, source_system, Head(tables), now),
            LAMBDA c : EnhancedTables(c, source_system, Tail(tables), now))

RECURSIVE EnhancedSystems(_, _, _)
EnhancedSystems(b, systems, now) ==
  IF systems = << >> THEN {b}
  ELSE Bind(Bind(BuildGetOrCreate(b, "SourceSystemNode", [name |-> Head(systems).name],
                                  SystemNode(Head(systems), now)),
                 LAMBDA c : EnhancedTables([c EXCEPT !.ss_id = c.id,
                                                     !.seen = @ \cup {c.id}],
                                           Head(systems), Head(systems).tables, now)),
            LAMBDA c : EnhancedSystems(c, Tail(systems), now))

\* build_source_metadata_graph_enhanced with no node_cache supplied.
build_source_metadata_graph_enhanced(st, h, now) == EnhancedSystems(NewBuild(st), h, now)

\* ------------------------------------------------------------------------
\* Builder operations one after the other
\* ------------------------------------------------------------------------
Hierarchies == {Hierarchy("CRMSYS", "CRM", "CUSTOMER", "CUST_ID")}
OpsCatalog == {D1d, D3}

\* One whole metadata build.
MetadataBuild ==
  /\ calls.n < MaxCalls
  /\ \E h \in Hierarchies : \E b \in build_source_metadata_graph(store, h, clock) : store' = b.st
  /\ calls' = [calls EXCEPT !.n = @ + 1]
  /\ UNCHANGED <<clock, procs, faults, components>>

\* One whole enhanced metadata build.
EnhancedMetadataBuild ==
  /\ calls.n < MaxCalls
  /\ \E h \in Hierarchies : \E b \in build_source_metadata_graph_enhanced(store, h, clock) :
       store' = b.st
  /\ calls' = [calls EXCEPT !.n = @ + 1]
  /\ UNCHANGED <<clock, procs, faults, components>>

\* One whole build of a single declaration, by the builder with a cache of
\* its own or by the builder without one.
SingleBuild ==
  /\ calls.n < MaxCalls
  /\ \E kind \in {"cached", "uncached"} : \E d \in OpsCatalog :
       \E o \in Run(NewFrame(kind, <<d>>), store, clock) : store' = o.st
  /\ calls' = [calls EXCEPT !.n = @ + 1]
  /\ UNCHANGED <<clock, procs, faults, components>>

\* One whole batch build.
BatchBuild ==
  /\ calls.n < MaxCalls
  /\ \E decls \in SeqsUpTo(OpsCatalog, MaxBatch) :
       \E o \in Run(NewFrame("batch", decls), store, clock) : store' = o.st
  /\ calls' = [calls EXCEPT !.n = @ + 1]
  /\ UNCHANGED <<clock, procs, faults, components>>

InitOps == InitAdapter

NextOps == Tick \/ MetadataBuild \/ EnhancedMetadataBuild \/ SingleBuild \/ BatchBuild

SpecOps == InitOps /\ [][NextOps]_vars

\* C3: in every state reached from the empty store by builder operations no
\* two nodes of one category share a natural key.
C3_NaturalKeyUnique ==
  \A n \in store.nodes : \A m \in store.nodes : KeyOf(n) = KeyOf(m) => n.id = m.id

\* ------------------------------------------------------------------------
\* A batch that is stopped and run again
\* ------------------------------------------------------------------------
RecoveryBatches == {<<D2d>>, <<D2d, D1d>>}

\* The batch is started on the empty store.
StartFirst ==
  /\ procs = << >>
  /\ \E decls \in RecoveryBatches : Start("batch", decls)

StepFirst == StepProc(1)

\* A store write of the first run fails: the declaration is given up and the
\* batch goes on with the next one.
FailFirst == FaultProc(1)

\* The task of the first run is cancelled.
CancelFirst == Cancel(1)

\* The caller runs the same batch again, with a fresh node_cache, after a
\* run that was cancelled or in which a write failed.
Rerun ==
  /\ Len(procs) = 1
  /\ ~ Running(1)
  /\ procs[1].status = "cancelled" \/ faults > 0
  /\ Start("batch", procs[1].decls)

StepRerun == StepProc(2)

NextRecovery ==
  Tick \/ StartFirst \/ StepFirst \/ FailFirst \/ CancelFirst \/ Rerun \/ StepRerun

SpecRecovery == InitBatch /\ [][NextRecovery]_vars

\* C8: a batch stopped after a prefix of its writes and then run again in
\* full with a fresh cache leaves the nodes and edges of one uninterrupted
\* run, and the second run adds no duplicate.
C8_RerunRecovers ==
  Done(2) =>
    \A o \in Run(NewFrame("batch", procs[2].decls), EmptyStore, 0) :
      /\ CanonNodes(store) = CanonNodes(o.st)
      /\ CanonEdges(store) = CanonEdges(o.st)
      /\ Cardinality(store.nodes) = Cardinality(o.st.nodes)
      /\ Cardinality(LineageEdges(store)) = Cardinality(LineageEdges(o.st))

\* ------------------------------------------------------------------------
\* Two batches at the same time
\* ------------------------------------------------------------------------
\* The two declarations of the scenario without their column entries.
T1 == [D1 EXCEPT !.name = "T1", !.columns = << >>]
T2 == [D2 EXCEPT !.name = "T2", !.columns = << >>]
ConcurrentCatalog == {T1, T2}

\* Two callers start a batch each; each batch has a node_cache of its own.
StartBoth ==
  /\ procs = << >>
  /\ \E a \in ConcurrentCatalog : \E b \in ConcurrentCatalog :
       procs' = <<NewFrame("batch", <<a>>), NewFrame("batch", <<b>>)>>
  /\ UNCHANGED <<store, clock, calls, faults, components>>

StepOne == StepProc(1)

StepOther == StepProc(2)

NextConcurrent == Tick \/ StartBoth \/ StepOne \/ StepOther

SpecConcurrent == InitBatch /\ [][NextConcurrent]_vars

\* The source tables that a declaration of each of the two batches names.
SharedSourceTables ==
  {d \in ConcurrentCatalog :
     \A i \in {1, 2} : \E k \in DOMAIN procs[i].decls :
       /\ procs[i].decls[k].source_schema = d.source_schema
       /\ procs[i].decls[k].source_table = d.source_table}

\* C9: two concurrent batches with a cache each never leave two nodes of one
\* category with one natural key, and when both have ended there is exactly
\* one node for a key that both declare.
C9_ConcurrentBatchesOneNode ==
  Len(procs) = 2 =>
    /\ \A n \in store.nodes : \A m \in store.nodes :
         (n.node_type = m.node_type /\ KeyOf(n) = KeyOf(m)) => n = m
    /\ (Done(1) /\ Done(2)) =>
         \A d \in SharedSourceTables : Cardinality(SourceTables(store, d)) = 1

\* ------------------------------------------------------------------------
\* The forms of a column mapping
\* ------------------------------------------------------------------------
\* The source of a mapping from column A, in each form a declaration can
\* give it.
SourceForms ==
  {SrcStr("A"), SrcList(<<Str("A")>>), SrcList(<<Str("A"), NonStr("1")>>),
   SrcList(<<NonStr("1"), Str("A")>>), SrcDict("A", NULL), SrcDict("A", "sd")}

Mapping(description, source) ==
  Decl("M", "CRM", "CUSTOMER", "INTEGRATION", "HUB_CUSTOMER", "hub", NULL,
       <<Col("X", NULL, description, source)>>)

\* One declaration with one column mapping is given to one of the two
\* Data Vault builders.
StartMapping ==
  /\ procs = << >>
  /\ \E kind \in {"cached", "uncached"} : \E description \in {NULL, "d"} :
       \E source \in SourceForms : Start(kind, <<Mapping(description, source)>>)

StepMapping == StepProc(1)

NextMapping == Tick \/ StartMapping \/ StepMapping

SpecMapping == InitBatch /\ [][NextMapping]_vars

\* The SourceColumn nodes of column A of the mapped source table.
SourceColumnsA ==
  {n \in store.nodes : /\ n.node_type = "SourceColumn" /\ n.name = "A"
                       /\ n.schema = "CRM" /\ n.table = "CUSTOMER"}
TargetColumnsX ==
  {n \in store.nodes : /\ n.node_type = "TargetColumn" /\ n.name = "X"
                       /\ n.schema = "INTEGRATION" /\ n.table = "HUB_CUSTOMER"}

\* C10: whether the source of a mapping is "A", ["A"] or {name: "A"}, the
\* builder writes exactly one SourceColumn node A and exactly one
\* TRANSFORMS_TO edge from it to the target column of the mapping, and
\* no node for an entry of the list that is not a string.
C10_SourceFormsNormalised ==
  (Len(procs) = 1 /\ ~ Running(1)) =>
    /\ Cardinality(SourceColumnsA) = 1
    /\ {n \in store.nodes : n.node_type = "SourceColumn"} = SourceColumnsA
    /\ Cardinality({e \in store.edges :
                      /\ e.relationship_type = "TRANSFORMS_TO"
                      /\ e.source_id \in {n.id : n \in SourceColumnsA}
                      /\ e.target_id \in {n.id : n \in TargetColumnsX}}) = 1

\* ------------------------------------------------------------------------
\* Upserts under the constraints of the Schema Registrar
\* ------------------------------------------------------------------------
\* CREATE CONSTRAINT ... IF NOT EXISTS succeeds unless two stored nodes with
\* the label already share the values of the fields.
Creatable(st, c) ==
  \A n \in st.nodes : \A m \in st.nodes :
    (/\ n.node_type = c.label /\ m.node_type = c.label
     /\ \A f \in c.fields : n[f] = m[f]) => n = m

\* The constraints setup_schema gets declared: its statements run in order
\* and the first one that fails ends it.
RECURSIVE Declared(_, _)
Declared(st, statements) ==
  IF statements = << >> \/ ~ Creatable(st, Head(statements)) THEN {}
  ELSE {Head(statements)} \cup Declared(st, Tail(statements))

\* SchemaManager.setup_schema
SetupSchema ==
  /\ store' = [store EXCEPT !.constraints = @ \cup Declared(store, SchemaManagerConstraints)]
  /\ store' # store
  /\ UNCHANGED <<clock, calls, procs, faults, components>>

NextConstrained == Tick \/ SetupSchema \/ AdapterCreateNode

SpecConstrained == InitAdapter /\ [][NextConstrained]_vars

\* The categories the Data Vault builders write.
BuilderCategories ==
  {"SourceSchema", "SourceTable", "SourceColumn", "TargetSchema", "TargetTable", "TargetColumn"}

SchemaIsSetUp ==
  \A x \in DOMAIN SchemaManagerConstraints : SchemaManagerConstraints[x] \in store.constraints

\* C14: with the constraints of the Schema Registrar in place, an upsert in
\* a Source*/Target* category never leaves two nodes with one natural key.
C14_ConstraintsPreventDuplicates ==
  [][SchemaIsSetUp =>
       \A c \in NewNodeCalls :
         (/\ c.arg.node_type \in BuilderCategories
          /\ Cardinality(NodesWithKey(store, c.arg)) <= 1)
         => Cardinality(NodesWithKey(store', c.arg)) <= 1]_vars

(***************************************************************************)
(* The component store: the table data_vault_components and its two        *)
(* lineage queries.  A row carries the columns the queries read; the       *)
(* columns that are only copied through (column lists, mapping and         *)
(* transformation text, collision code) are left out.  The id of a row is  *)
(* its position in the sequence.                                           *)
(***************************************************************************)
MaxComponents == 2

\* The component object handed to save_component: target_table is the
\* attribute of the declaration, which may be omitted (NULL).
Component(name, type, target_table, related_hubs) ==
  [name |-> name, component_type |-> type, target_table |-> target_table,
   related_hubs |-> related_hubs]

DataVaultComponentModel(component, source_system, source_schema, source_table, target_schema) ==
  [name |-> component.name, component_type |-> component.component_type,
   source_system |-> source_system, source_schema |-> source_schema,
   source_table |-> source_table, target_schema |-> target_schema,
   target_table |-> component.name, link_name |-> NULL]

\* The rows a query for the hub of that name can return first (the query has
\* no ORDER BY: any matching row).
HubsNamed(rows, hub_name) ==
  {i \in 1..Len(rows) : rows[i].component_type = "hub" /\ rows[i].name = hub_name}

\* The loop over related_hubs of a link: each hub found by .first() gets its
\* link_name set when it has none.  The result is the set of possible tables.
RECURSIVE UpdateRelatedHubs(_, _, _)
UpdateRelatedHubs(rows, hubs, link_name) ==
  IF hubs = << >> THEN {rows}
  ELSE LET found == HubsNamed(rows, Head(hubs))
       IN  IF found = {} THEN UpdateRelatedHubs(rows, Tail(hubs), link_name)
           ELSE UNION {UpdateRelatedHubs(
                         IF Falsy(rows[i].link_name)
                           THEN [rows EXCEPT ![i].link_name = link_name]
                           ELSE rows, Tail(hubs), link_name) : i \in found}

\* save_component: the possible tables after the call.
save_component(rows, component, source_system, source_schema, source_table, target_schema) ==
  LET db_component == DataVaultComponentModel(component, source_system, source_schema,
                                              source_table, target_schema)
      saved == Append(rows, db_component)
  IN  IF component.component_type = "link"
        THEN UpdateRelatedHubs(saved, component.related_hubs, component.name)
        ELSE {saved}

\* target_table: comp.target_table or comp.name
LineageInfo(comp) ==
  [source_system |-> comp.source_system, source_schema |-> comp.source_schema,
   source_table |-> comp.source_table, target_schema |-> comp.target_schema,
   target_table |-> IF Falsy(comp.target_table) THEN comp.name ELSE comp.target_table,
   component_type |-> comp.component_type, component_name |-> comp.name]

RECURSIVE LineageResults(_)
LineageResults(comps) ==
  IF comps = << >> THEN << >> ELSE <<LineageInfo(Head(comps))>> \o LineageResults(Tail(comps))

\* The filter on the table ignores the table, as it does when none is given.
get_source_to_target_lineage_any_table(rows, source_system, source_schema, source_table) ==
  LET Selected(comp) ==
        /\ comp.source_system = source_system
        /\ (~ Falsy(source_schema) => comp.source_schema = source_schema)
  IN  LineageResults(SelectSeq(rows, Selected))

\* get_source_to_target_lineage: the records in the order of the rows (the
\* query has no ORDER BY; nothing here depends on the order).
get_source_to_target_lineage(rows, source_system, source_schema, source_table) ==
  LET Selected(comp) ==
        /\ comp.source_system = source_system
        /\ (~ Falsy(source_schema) => comp.source_schema = source_schema)
        /\ (~ Falsy(source_table) => comp.source_table = source_table)
  IN  LineageResults(SelectSeq(rows, Selected))

None == [component_name |-> NULL]

\* The filter on the target schema is dropped.
get_target_to_source_lineage_any_schema(rows, target_schema, target_table) ==
  LET found == {i \in 1..Len(rows) :
                  rows[i].target_table = target_table \/ rows[i].name = target_table}
  IN  IF found = {} THEN {None} ELSE {LineageInfo(rows[i]) : i \in found}

\* get_target_to_source_lineage: the set of records the call can return;
\* .first() of a query without ORDER BY is any matching row.
get_target_to_source_lineage(rows, target_schema, target_table) ==
  LET found == {i \in 1..Len(rows) :
                  /\ rows[i].target_schema = target_schema
                  /\ (rows[i].target_table = target_table \/ rows[i].name = target_table)}
  IN  IF found = {} THEN {None} ELSE {LineageInfo(rows[i]) : i \in found}

\* The components of the generator: a hub and a link relating it, each with
\* or without an explicit target table.
ComponentCatalog ==
  {Component("H", "hub", t, << >>) : t \in {NULL, "T"}}
    \cup {Component("L", "link", t, <<"H">>) : t \in {NULL, "T"}}

SourceSystems == {"sys", "oth"}
SourceSchemas == {NULL, "CRM"}
SourceTableNames == {"CUSTOMER", "CLIENT"}
TargetSchemas == {"INTEGRATION"}

\* One committed declaration: what was handed to save_component.
Declaration(component, source_system, source_schema, source_table, target_schema) ==
  [component |-> component, source_system |-> source_system,
   source_schema |-> source_schema, source_table |-> source_table,
   target_schema |-> target_schema]

SaveComponent ==
  /\ Len(components) < MaxComponents
  /\ \E component \in ComponentCatalog, sys \in SourceSystems, ss \in SourceSchemas,
        st \in SourceTableNames, ts \in TargetSchemas :
       /\ components' \in save_component(components, component, sys, ss, st, ts)
       /\ calls' = [n |-> calls.n + 1,
                    log |-> calls.log \cup
                      {[op |-> "save", at |-> calls.n + 1,
                        arg |-> Declaration(component, sys, ss, st, ts)]}]
  /\ UNCHANGED <<store, clock, procs, faults>>

NextLineage == SaveComponent

SpecLineage == InitAdapter /\ [][NextLineage]_vars

\* What a caller of the queries may pass.
QuerySchemas == {NULL, EMPTY, "CRM", "ERP"}
QueryTables == {NULL, EMPTY, "CUSTOMER", "CLIENT"}
QueryTargetSchemas == {"INTEGRATION", "RAW"}
QueryTargetTables == {"H", "L", "T"}

Committed == {c.arg : c \in {k \in calls.log : k.op = "save"}}

\* The target table a declaration names: its attribute, or its own name.
DeclaredTarget(d) ==
  IF Falsy(d.component.target_table) THEN d.component.name ELSE d.component.target_table

Records(seq) == {seq[k] : k \in 1..Len(seq)}

\* C15: for every committed declaration with source (S, T) and target
\* (S2, T2), SourceToTarget(system, S, T) returns a record whose target table
\* is T2 and TargetToSource(S2, T2) returns a record whose source table is T,
\* whatever else the store holds.
C15_LineageSymmetry ==
  \A d \in Committed :
    /\ \E r \in Records(get_source_to_target_lineage(components, d.source_system,
                                                     d.source_schema, d.source_table)) :
         r.target_table = DeclaredTarget(d)
    /\ \A a \in get_target_to_source_lineage(components, d.target_schema, DeclaredTarget(d)) :
         a # None /\ a.source_table = d.source_table

\* The components that match a target coordinate, in the words of the claim.
MatchesTarget(comp, targetSchema, targetTable) ==
  /\ comp.target_schema = targetSchema
  /\ (comp.target_table = targetTable \/ comp.name = targetTable)

OwedRecords(sys, ss, st, Given(_)) ==
  LET Matches(comp) ==
        /\ comp.source_system = sys
        /\ (Given(ss) => comp.source_schema = ss)
        /\ (Given(st) => comp.source_table = st)
  IN  SelectSeq(components, Matches)

SameRecords(result, owed) ==
  /\ Len(result) = Len(owed)
  /\ \A k \in 1..Len(owed) :
       /\ result[k].component_name = owed[k].name
       /\ result[k].source_system = owed[k].source_system
       /\ result[k].source_schema = owed[k].source_schema
       /\ result[k].source_table = owed[k].source_table

NotOmitted(v) == v # NULL
NotEmpty(v) == v \notin {NULL, EMPTY}

\* C17 as stated: SourceToTarget returns one record for each stored component
\* whose source system equals sourceSystem and which matches every one of
\* schema and table that was supplied, and no other; only an omitted schema
\* or table places no restriction.
C17_SuppliedRestricts ==
  \A sys \in SourceSystems, ss \in QuerySchemas, st \in QueryTables :
    SameRecords(get_source_to_target_lineage(components, sys, ss, st),
                OwedRecords(sys, ss, st, NotOmitted))

\* C17: SourceToTarget returns one record for each stored component whose
\* source system equals sourceSystem and which matches every one of schema
\* and table that was supplied and is not empty, and no record for any other
\* component; an omitted or empty schema or table places no restriction.
C17_NonEmptyRestricts ==
  \A sys \in SourceSystems, ss \in QuerySchemas, st \in QueryTables :
    SameRecords(get_source_to_target_lineage(components, sys, ss, st),
                OwedRecords(sys, ss, st, NotEmpty))

\* Two components of one system with different source tables: a query with
\* the table returns one of them, a query without returns both.
C17_Witness ==
  \E sys \in SourceSystems, st \in QueryTables :
    /\ Len(get_source_to_target_lineage(components, sys, NULL, st)) = 1
    /\ Len(get_source_to_target_lineage(components, sys, NULL, NULL)) = 2
    /\ Len(get_source_to_target_lineage(components, sys, EMPTY, EMPTY)) = 2

(***************************************************************************)
(* Clearing the graph: DELETE /clear and the adapter's clear_database.     *)
(***************************************************************************)
\* MATCH (n) DETACH DELETE n: every node goes, and every edge with its nodes.
\* The constraints of the database stay.
clear_database(st) == [st EXCEPT !.nodes = {}, !.edges = {}]

\* The confirmation flag is not looked at.
clear_knowledge_graph_unconfirmed(st, role, confirm, fails) ==
  IF role # "admin" THEN [st |-> st, status |-> 403]
  ELSE IF fails THEN [st |-> st, status |-> 500]
  ELSE [st |-> clear_database(st), status |-> 200]

\* clear_knowledge_graph: the store after the request and the status of the
\* response; fails says that the statement raised (nothing is deleted then).
clear_knowledge_graph(st, role, confirm, fails) ==
  IF role # "admin" THEN [st |-> st, status |-> 403]
  ELSE IF ~ confirm THEN [st |-> st, status |-> 400]
  ELSE IF fails THEN [st |-> st, status |-> 500]
  ELSE [st |-> clear_database(st), status |-> 200]

Roles == {"admin", "user"}

\* One DELETE /clear request.
ClearKnowledgeGraph ==
  /\ calls.n < MaxCalls
  /\ \E role \in Roles, confirm \in BOOLEAN, fails \in {FALSE} \cup {f \in {TRUE} : faults < MaxFaults} :
       LET r == clear_knowledge_graph(store, role, confirm, fails)
       IN  /\ store' = r.st
           /\ faults' = IF r.status = 500 THEN faults + 1 ELSE faults
           /\ calls' = [n |-> calls.n + 1,
                        log |-> calls.log \cup
                          {[op |-> "clear", at |-> calls.n + 1, status |-> r.status,
                            arg |-> [role |-> role, confirm |-> confirm]]}]
  /\ UNCHANGED <<clock, procs, components>>

\* The builds and the requests at one reading of the clock.
NextClear == MetadataBuild \/ EnhancedMetadataBuild \/ SingleBuild \/ BatchBuild \/ ClearKnowledgeGraph

SpecClear == InitOps /\ [][NextClear]_vars

ClearRequests(log) == {c \in log : c.op = "clear"}

Ids(things) == {t.id : t \in things}

\* C18: no builder operation removes a node or an edge; the contents go only
\* by clear_database, which the clear path calls only for a caller with the
\* admin role and confirm = true; a request of a non-admin caller or with
\* confirm = false is rejected and leaves the store unchanged.
C18_OnlyConfirmedAdminClears ==
  [][LET requests == ClearRequests(calls'.log) \ ClearRequests(calls.log)
     IN  /\ (~ (Ids(store.nodes) \subseteq Ids(store'.nodes))
               \/ ~ (Ids(store.edges) \subseteq Ids(store'.edges)))
               => \E c \in requests :
                    c.arg.role = "admin" /\ c.arg.confirm /\ c.status = 200
         /\ \A c \in requests :
              (c.arg.role # "admin" \/ ~ c.arg.confirm)
                => c.status \in {400, 403} /\ store' = store]_vars

\* A graph was built, a request was rejected, and a confirmed request of an
\* administrator has emptied the store.
C18_Witness ==
  /\ store.nextNode > 0 /\ store.nextRel > 0
  /\ store.nodes = {} /\ store.edges = {}
  /\ \E c \in ClearRequests(calls.log) : c.status = 200
  /\ \E c \in ClearRequests(calls.log) : c.status \in {400, 403}

(***************************************************************************)
(* Relationship upserts with a type that is not one of RelationshipType:   *)
(* the model object validates its type on construction only, so a caller   *)
(* can hand any string to create_relationship.                             *)
(***************************************************************************)
RelTypeInputs ==
  {"CONTAINS", "RelationshipType.CONTAINS", "RelationshipType.TRANSFORMS_TO",
   "HAS COLUMN", "FOO"}

\* A caller upserts a relationship of any type.
AdapterCreateTypedRelationship ==
  /\ calls.n < MaxCalls
  /\ \E type \in RelTypeInputs, s \in 0..1, t \in 0..1 :
       LET rel == RelationshipBase(type, s, t, NULL, NULL, NULL, clock) IN
       \E r \in create_relationship(store, rel) :
         /\ store' = r.st
         /\ calls' = [n |-> calls.n + 1,
                      log |-> calls.log \cup
                        {Logged("rel", [relationship_type |-> type, source_id |-> s,
                                        target_id |-> t], r.id, r.ok)}]
  /\ UNCHANGED <<clock, procs, faults, components>>

NextTyped == AdapterCreateNode \/ AdapterCreateTypedRelationship

SpecTyped == InitAdapter /\ [][NextTyped]_vars

\* A type fails validation when, after the adapter's own sanitising, it is
\* not one of the relationship types.
FailsValidation(type) == rel_type(type) \notin RelationshipType

\* C19: when the relationship type of an upsert fails validation,
\* create_relationship writes the edge with the type CONTAINS between the
\* same two nodes and returns the id of that edge; it raises only when the
\* write itself fails (here: an end point does not exist).
C19_InvalidTypeFallsBack ==
  [][\A c \in {k \in calls'.log \ calls.log : k.op = "rel"} :
       LET written == {c.arg.source_id, c.arg.target_id} \subseteq NodeIds(store)
       IN  /\ ~ c.ok => ~ written
           /\ (FailsValidation(c.arg.relationship_type) /\ written) =>
                /\ c.ok
                /\ \E e \in store'.edges :
                     /\ e.id = c.id
                     /\ e.relationship_type = "CONTAINS"
                     /\ e.source_id = c.arg.source_id
                     /\ e.target_id = c.arg.target_id]_vars

(***************************************************************************)
(* A batch in which a store write may fail at any point.                   *)
(***************************************************************************)
FaultBatch == FaultProc(1)

NextFaulty == StartBatch \/ StepBatch \/ FaultBatch

SpecFaulty == InitBatch /\ [][NextFaulty]_vars

\* C20: when processing one declaration of a batch raises at any point, the
\* per-column loop included, the orchestrator catches the error: the batch
\* call never ends by raising, it goes on while declarations remain, and
\* when it has returned every declaration of the batch has been processed.
C20_BatchSurvivesRaise ==
  \A i \in DOMAIN procs :
    /\ procs[i].status \in {"running", "done"}
    /\ Len(procs[i].outcome) <= Len(procs[i].decls)
    /\ Running(i) => procs[i].k <= Len(procs[i].decls) /\ ENABLED StepProc(i)
    /\ Done(i) => Len(procs[i].outcome) = Len(procs[i].decls)

\* The first declaration raised inside its column loop (no write failed and
\* it lacks no coordinate), the second one was processed to its end, and the
\* batch has returned.
C20_Witness ==
  /\ Done(1)
  /\ faults = 0
  /\ procs[1].outcome = <<"error", "ok">>
  /\ \E n \in store.nodes : n.node_type = "TargetColumn"

\* The entries of the errors list of invocation i that identify the
\* declaration of that name, and the positions at which it failed.
ErrorEntries(i, name) == {x \in 1..Len(procs[i].errors) : procs[i].errors[x].file = name}
FailedAt(i, name) ==
  {k \in 1..Len(procs[i].decls) :
     procs[i].decls[k].name = name /\ procs[i].outcome[k] = "error"}

\* C21: on every batch path, when the batch has returned, each declaration
\* that failed in it has exactly one entry in the errors list of the result
\* identifying it, and a declaration that succeeded has none.
C21_OneErrorEntryPerFailure ==
  \A i \in DOMAIN procs :
    Done(i) =>
      \A k \in 1..Len(procs[i].decls) :
        LET name == procs[i].decls[k].name
        IN  Cardinality(ErrorEntries(i, name)) = Cardinality(FailedAt(i, name))

(***************************************************************************)
(* Metadata builds of snapshots with foreign keys.                         *)
(***************************************************************************)
\* CUSTOMER(ID) in a schema, and ORDERS(CUSTOMER_ID) in CRM whose column is
\* a foreign key to column c of table t.
CustomerTable(schema) == TableMetadata(schema, "CUSTOMER", <<ColumnMetadata("ID", FALSE, NULL, NULL)>>)
OrdersTable(t, c) == TableMetadata("CRM", "ORDERS", <<ColumnMetadata("CUSTOMER_ID", TRUE, t, c)>>)

\* One source system with the two tables in either order; the reference is
\* to CUSTOMER.ID, to a column CUSTOMER does not have, or to a table the
\* system does not have.  And two source systems with the same table.
Snapshots ==
  UNION {{<<SourceSystemMetadata("CRMSYS", <<CustomerTable(schema), OrdersTable(fk[1], fk[2])>>)>>,
          <<SourceSystemMetadata("CRMSYS", <<OrdersTable(fk[1], fk[2]), CustomerTable(schema)>>)>>} :
           schema \in {"CRM", "ERP"},
           fk \in {<<"CUSTOMER", "ID">>, <<"CUSTOMER", "NAME">>, <<"REGION", "ID">>}}
    \cup {<<SourceSystemMetadata("CRMSYS", <<CustomerTable("CRM")>>),
            SourceSystemMetadata("ERPSYS", <<CustomerTable("CRM")>>)>>}

\* The record of one build: its snapshot, whether the store had no node
\* before it, whether it returned, and the warnings it recorded.
BuildLogged(op, h, b) ==
  [op |-> op, at |-> calls.n + 1, arg |-> h, from_empty |-> store.nodes = {},
   ok |-> b.ok, warnings |-> b.warnings]

\* One whole metadata build of a snapshot.
SnapshotBuild ==
  /\ calls.n < MaxCalls
  /\ \E h \in Snapshots : \E b \in build_source_metadata_graph(store, h, clock) :
       /\ store' = b.st
       /\ calls' = [n |-> calls.n + 1, log |-> calls.log \cup {BuildLogged("metadata", h, b)}]
  /\ UNCHANGED <<clock, procs, faults, components>>

\* One whole enhanced metadata build of a snapshot.
EnhancedSnapshotBuild ==
  /\ calls.n < MaxCalls
  /\ \E h \in Snapshots : \E b \in build_source_metadata_graph_enhanced(store, h, clock) :
       /\ store' = b.st
       /\ calls' = [n |-> calls.n + 1, log |-> calls.log \cup {BuildLogged("enhanced", h, b)}]
  /\ UNCHANGED <<clock, procs, faults, components>>

\* The builds at one reading of the clock.
NextMetadata == SnapshotBuild \/ EnhancedSnapshotBuild

SpecMetadata == InitOps /\ [][NextMetadata]_vars

NewBuilds == calls'.log \ calls.log

\* The foreign keys of a snapshot: system x, table y, column z.
ForeignKeys(h) ==
  {k \in UNION {UNION {{<<x, y, z>> : z \in DOMAIN h[x].tables[y].columns} :
                         y \in DOMAIN h[x].tables} : x \in DOMAIN h} :
     IsForeignKey(h[k[1]].tables[k[2]].columns[k[3]])}

\* The columns of the system of k that the foreign key k names: <<schema,
\* table, column>>.
Referenced(h, k) ==
  LET tables == h[k[1]].tables
      fk == tables[k[2]].columns[k[3]] IN
  {<<tables[y].schema, tables[y].name, fk.foreign_key_column>> :
     y \in {u \in DOMAIN tables :
              /\ tables[u].name = fk.foreign_key_table
              /\ \E z \in DOMAIN tables[u].columns :
                   tables[u].columns[z].name = fk.foreign_key_column}}

ColumnLabel(op) == IF op = "metadata" THEN "Column" ELSE "SourceColumn"

ColumnNodes(st, label, key) ==
  {n \in st.nodes : n.node_type = label /\ n.schema = key[1] /\ n.table = key[2] /\ n.name = key[3]}

\* The REFERENCES edges of the store from the column of the foreign key k to
\* the column `to`.
ReferencesEdges(st, op, h, k, to) ==
  LET t == h[k[1]].tables[k[2]] IN
  {e \in st.edges :
     /\ e.relationship_type = "REFERENCES"
     /\ \E a \in ColumnNodes(st, ColumnLabel(op), <<t.schema, t.name, t.columns[k[3]].name>>) :
          e.source_id = a.id
     /\ \E a \in ColumnNodes(st, ColumnLabel(op), to) : e.target_id = a.id}

\* C22: in a metadata build of either variant from an empty store, every
\* foreign-key column whose referenced table and column exist in the same
\* source system gets a REFERENCES edge from its column node to the
\* referenced column node, whatever the order of the tables.
C22_ForeignKeysResolved ==
  [][\A c \in NewBuilds :
       c.from_empty =>
         \A k \in ForeignKeys(c.arg) : \A to \in Referenced(c.arg, k) :
           ReferencesEdges(store', c.op, c.arg, k, to) # {}]_vars

\* The foreign keys of a snapshot that name a table or a column its source
\* system does not have.
UnresolvedKeys(h) == {k \in ForeignKeys(h) : Referenced(h, k) = {}}

Label(op, level) == IF op = "metadata" THEN level ELSE "Source" \o level

HasContains(st, parents, children) ==
  \E e \in st.edges : /\ e.relationship_type = "CONTAINS"
                      /\ e.source_id \in Ids(parents)
                      /\ e.target_id \in Ids(children)

\* Every node of the snapshot h and every CONTAINS edge of it is in the
\* store.
SnapshotWritten(st, op, h) ==
  \A x \in DOMAIN h :
    LET systems == find_nodes_by_properties(st, "SourceSystem", [name |-> h[x].name]) IN
    /\ systems # {}
    /\ \A y \in DOMAIN h[x].tables :
         LET t == h[x].tables[y]
             schemas == find_nodes_by_properties(st, Label(op, "Schema"), [name |-> t.schema])
             tables == find_nodes_by_properties(st, Label(op, "Table"),
                                                [name |-> t.name, schema |-> t.schema])
         IN  /\ HasContains(st, systems, schemas)
             /\ HasContains(st, schemas, tables)
             /\ \A z \in DOMAIN t.columns :
                  HasContains(st, tables,
                              ColumnNodes(st, ColumnLabel(op), <<t.schema, t.name, t.columns[z].name>>))

\* The REFERENCES edges that leave the column of the foreign key k.
ReferencesFrom(st, op, h, k) ==
  LET t == h[k[1]].tables[k[2]] IN
  {e \in st.edges :
     /\ e.relationship_type = "REFERENCES"
     /\ e.source_id \in Ids(ColumnNodes(st, ColumnLabel(op),
                                        <<t.schema, t.name, t.columns[k[3]].name>>))}

\* All of C23 but the warning.
C23_UnresolvedSkipped ==
  [][\A c \in NewBuilds :
       (c.from_empty /\ UnresolvedKeys(c.arg) # {}) =>
         /\ c.ok
         /\ SnapshotWritten(store', c.op, c.arg)
         /\ \A k \in UnresolvedKeys(c.arg) : ReferencesFrom(store', c.op, c.arg, k) = {}]_vars

\* C23: in a metadata build a foreign-key column whose referenced table or
\* column is missing from the source system produces no REFERENCES edge, is
\* recorded as a warning, and does not raise: the build completes and all
\* nodes and CONTAINS edges of the snapshot are written.
C23_UnresolvedWarned ==
  [][\A c \in NewBuilds :
       (c.from_empty /\ UnresolvedKeys(c.arg) # {}) =>
         /\ c.ok
         /\ SnapshotWritten(store', c.op, c.arg)
         /\ \A k \in UnresolvedKeys(c.arg) : ReferencesFrom(store', c.op, c.arg, k) = {}
         /\ Len(c.warnings) = Cardinality(UnresolvedKeys(c.arg))]_vars

(***************************************************************************)
(* The enhanced metadata build and Data Vault declarations on one store.   *)
(***************************************************************************)
\* The enhanced build of the metadata of CRM.CUSTOMER(CUST_ID).
CombinedMetadata ==
  /\ calls.n < MaxCalls
  /\ \E h \in Hierarchies : \E b \in build_source_metadata_graph_enhanced(store, h, clock) :
       /\ store' = b.st
       /\ calls' = [n |-> calls.n + 1, log |-> calls.log \cup {BuildLogged("enhanced", h, b)}]
  /\ UNCHANGED <<clock, procs, faults, components>>

\* One whole build of a declaration of CRM.CUSTOMER by either builder.
CombinedDeclaration ==
  /\ calls.n < MaxCalls
  /\ \E kind \in {"cached", "uncached"} : \E d \in OpsCatalog :
       \E o \in Run(NewFrame(kind, <<d>>), store, clock) :
         /\ store' = o.st
         /\ calls' = [n |-> calls.n + 1,
                      log |-> calls.log \cup
                        {[op |-> kind, at |-> calls.n + 1, arg |-> d,
                          from_empty |-> store.nodes = {}, ok |-> o.p.status = "done",
                          warnings |-> << >>]}]
  /\ UNCHANGED <<clock, procs, faults, components>>

NextCombined == CombinedMetadata \/ CombinedDeclaration

SpecCombined == InitOps /\ [][NextCombined]_vars

\* The source columns a declaration names.
DeclaredSourceColumns(d) ==
  UNION {Records(source_column_names(d.columns[z].source)) : z \in DOMAIN d.columns}

\* C24: when the enhanced metadata build and a declaration have both
\* declared the source table (S, T), or the source column (S, T, C), in
\* either order, the store has exactly one SourceTable (SourceColumn) node of
\* that key, and the CONTAINS edges of the build and the TRANSFORMS_TO edge
\* of the declaration are at that node.
C24_SharedSourceNodes ==
  \A m \in {c \in calls.log : c.op = "enhanced" /\ c.ok} :
    \A c \in {k \in calls.log : k.op \in {"cached", "uncached"} /\ k.ok} :
      \A y \in DOMAIN m.arg[1].tables :
        LET t == m.arg[1].tables[y]
            d == c.arg
            tables == find_nodes_by_properties(store, "SourceTable",
                                               [name |-> t.name, schema |-> t.schema])
        IN  (t.schema = d.source_schema /\ t.name = d.source_table) =>
              /\ Cardinality(tables) = 1
              /\ \E e \in store.edges :
                   e.relationship_type = "CONTAINS" /\ e.target_id \in Ids(tables)
              /\ \E e \in store.edges :
                   e.relationship_type = "TRANSFORMS_TO" /\ e.source_id \in Ids(tables)
              /\ \A z \in DOMAIN t.columns :
                   LET columns == ColumnNodes(store, "SourceColumn",
                                              <<t.schema, t.name, t.columns[z].name>>)
                   IN  t.columns[z].name \in DeclaredSourceColumns(d) =>
                         /\ Cardinality(columns) = 1
                         /\ \E e \in store.edges :
                              e.relationship_type = "CONTAINS" /\ e.target_id \in Ids(columns)
                         /\ \E e \in store.edges :
                              e.relationship_type = "TRANSFORMS_TO"
                                /\ e.source_id \in Ids(columns)

(***************************************************************************)
(* The cache of the four table-level nodes.                                *)
(***************************************************************************)
\* The four table-level upserts: the key in the cache, and whether the node
\* has a CONTAINS edge from its schema.
TableLevel == {"source_schema", "target_schema", "source_table", "target_table"}
CacheKey(d, level) ==
  CASE level = "source_schema" -> <<"source_schemas", d.source_schema>>
    [] level = "target_schema" -> <<"target_schemas", d.target_schema>>
    [] level = "source_table" -> <<"source_tables", d.source_schema, d.source_table>>
    [] level = "target_table" -> <<"target_tables", d.target_schema, d.target_table>>
Parent(level) ==
  CASE level = "source_table" -> "source_schema"
    [] level = "target_table" -> "target_schema"
    [] OTHER -> NULL

\* The entries of results["relationships"] for the table-level TRANSFORMS_TO
\* of declaration d.
TableTransformEntries(rels, d) ==
  {x \in DOMAIN rels : /\ rels[x].type = "TRANSFORMS_TO"
                       /\ rels[x].source = d.source_table
                       /\ rels[x].target = d.target_table}

\* One step of the cached builder at a table-level upsert: on a hit no call
\* of the store, the cached id, and no CONTAINS to come; on a miss the node
\* upsert, and its CONTAINS next when the node has a parent.
C25_TableLevelStep ==
  \A i \in DOMAIN procs :
    LET p == procs[i]
        q == procs'[i]
        d == p.decls[p.k]
    IN  (Running(i) /\ q # p /\ UsesCache(p) /\ p.pc \in TableLevel) =>
          IF CacheKey(d, p.pc) \in DOMAIN p.cache
            THEN /\ store' = store
                 /\ q.res = p.res
                 /\ q.loc[p.pc] = p.cache[CacheKey(d, p.pc)]
                 /\ q.pc \notin {"source_table_contains", "target_table_contains"}
            ELSE /\ Len(q.res.nodes) = Len(p.res.nodes) + 1
                 /\ q.res.nodes[Len(q.res.nodes)].id = q.loc[p.pc]
                 /\ q.loc[p.pc] \in NodeIds(store')
                 /\ q.res.rels = p.res.rels
                 /\ (Parent(p.pc) # NULL) => q.pc = p.pc \o "_contains"

\* The CONTAINS step that follows a miss, and the TRANSFORMS_TO step: one
\* upsert from the held source to the held target.
C25_EdgeStep ==
  \A i \in DOMAIN procs :
    LET p == procs[i]
        q == procs'[i]
        level == IF p.pc = "source_table_contains" THEN "source_table" ELSE "target_table"
        from == IF p.pc = "transforms_to" THEN p.loc.source_table ELSE p.loc[Parent(level)]
        to == IF p.pc = "transforms_to" THEN p.loc.target_table ELSE p.loc[level]
        type == IF p.pc = "transforms_to" THEN "TRANSFORMS_TO" ELSE "CONTAINS"
    IN  (/\ Running(i) /\ q # p /\ UsesCache(p)
         /\ p.pc \in {"source_table_contains", "target_table_contains", "transforms_to"}) =>
          /\ Len(q.res.rels) = Len(p.res.rels) + 1
          /\ q.res.rels[Len(q.res.rels)].type = type
          /\ EdgesBetween(store', type, from, to) # {}

\* In the column phase of a declaration exactly one table-level TRANSFORMS_TO
\* has been issued for it.
C25_OneTableTransform ==
  \A i \in DOMAIN procs :
    (Running(i) /\ UsesCache(procs[i]) /\ procs[i].pc = "column") =>
      Cardinality(TableTransformEntries(procs[i].res.rels, procs[i].decls[procs[i].k])) = 1

\* C25: when the four table-level keys of a declaration are in the Node
\* Cache the builder issues no node upsert and no CONTAINS upsert for them,
\* uses the cached ids, and still issues exactly one table-level
\* TRANSFORMS_TO upsert between the cached tables; a node upsert and its
\* CONTAINS upsert are issued exactly on a miss.
C25_CachedTableLevel ==
  [][C25_TableLevelStep /\ C25_EdgeStep]_vars /\ [](C25_OneTableTransform)

\* The second declaration of a batch found all four keys in the cache: it is
\* in its column phase with the ids of the first one, no node in its result
\* and its TRANSFORMS_TO as its only relationship.
C25_Witness ==
  /\ Running(1) /\ procs[1].k = 2 /\ procs[1].pc = "column" /\ procs[1].loc.i = 1
  /\ procs[1].res.nodes = << >>
  /\ Len(procs[1].res.rels) = 1
  /\ \A level \in TableLevel :
       procs[1].loc[level] = procs[1].cache[CacheKey(procs[1].decls[2], level)]

(***************************************************************************)
(* The column loop of the cached builder over column entries with and      *)
(* without description and source.                                         *)
(***************************************************************************)
\* The column entries for one target: with or without a description, with
\* no source, a string, or a mapping with or without its own description.
ColumnEntries(target) ==
  {Col(target, NULL, description, source) :
     description \in {NULL, "d_" \o target},
     source \in {SrcNone, SrcStr("CUST_ID"), SrcDict("CUST_ID", NULL),
                 SrcDict("CUST_ID", "s_" \o target)}}

\* Declarations of the hub with one or two column entries, in both orders of
\* their targets.
ColumnCatalog ==
  {[D3 EXCEPT !.name = "columns", !.columns = cols] :
     cols \in UNION {{<<a>>, <<a, b>>, <<b, a>>} :
                       a \in ColumnEntries("CUST_ID"), b \in ColumnEntries("EMAIL")}}

\* One call of the cached builder on an empty cache, or an upload in which
\* the declaration comes after one that filled the cache.
StartColumns ==
  /\ procs = << >>
  /\ \E d \in ColumnCatalog :
       \/ Start("cached", <<d>>)
       \/ Start("files", <<D1d, d>>)

StepColumns == StepProc(1)

NextColumns == StartColumns \/ StepColumns

SpecColumns == InitBatch /\ [][NextColumns]_vars

\* The descriptions a column entry gives its target column.
OwnDescriptions(column) ==
  {EMPTY} \cup (IF column.description # NULL THEN {column.description} ELSE {})
          \cup (IF column.source.kind = "dict" /\ column.source.description # NULL
                  THEN {column.source.description} ELSE {})

\* No declaration of the invocation raised.
Completes(i) == procs[i].status # "raised" /\ \A x \in DOMAIN procs[i].outcome : procs[i].outcome[x] = "ok"

\* Every target column of the store has a description of one of its own
\* column entries.
OwnDescriptionOnly(i) ==
  \A n \in store.nodes :
    n.node_type = "TargetColumn" =>
      \E k \in DOMAIN procs[i].decls :
        \E z \in DOMAIN procs[i].decls[k].columns :
          /\ procs[i].decls[k].columns[z].target = n.name
          /\ n.description \in OwnDescriptions(procs[i].decls[k].columns[z])

\* C26: the cached builder completes without raising for every declaration
\* with its four coordinates and a target in every column entry, whatever
\* the cache, the order of the entries and their description and source
\* fields, and a target column's description comes from its own entry only.
C26_ColumnLoopSound ==
  \A i \in DOMAIN procs : Completes(i) /\ OwnDescriptionOnly(i)

(***************************************************************************)
(* The cached and the uncached builder on one declaration.                 *)
(***************************************************************************)
BuilderCatalog == {D1, D2, D1d, D2d, D3} \cup {d \in ColumnCatalog : Len(d.columns) = 1}

\* POST /yaml/build-data-vault: one declaration on an empty store, given to
\* the cached builder without a cache, or to the uncached builder.
StartBuilder ==
  /\ procs = << >>
  /\ \E kind \in {"cached", "uncached"}, d \in BuilderCatalog : Start(kind, <<d>>)

StepBuilder == StepProc(1)

NextBuilders == StartBuilder \/ StepBuilder

SpecBuilders == InitBatch /\ [][NextBuilders]_vars

\* No source column name and no target column name occurs twice in d.
RECURSIVE Flatten(_)
Flatten(seqs) == IF seqs = << >> THEN << >> ELSE Head(seqs) \o Flatten(Tail(seqs))
NoRepeat(d) ==
  LET targets == [z \in DOMAIN d.columns |-> d.columns[z].target]
      sources == Flatten([z \in DOMAIN d.columns |-> source_column_names(d.columns[z].source)])
  IN  /\ \A x, y \in DOMAIN targets : targets[x] = targets[y] => x = y
      /\ \A x, y \in DOMAIN sources : sources[x] = sources[y] => x = y

\* The two builders agree on the outcome o of the one and the frame and the
\* store of the other.
SameGraph(o, p, st) ==
  /\ CanonNodes(o.st) = CanonNodes(st)
  /\ CanonEdges(o.st) = CanonEdges(st)
SameCounts(o, p) ==
  /\ o.p.status = p.status
  /\ Len(o.p.res.nodes) = Len(p.res.nodes)
  /\ Len(o.p.res.rels) = Len(p.res.rels)

\* C27: on an empty store the cached builder without a cache and the
\* uncached builder write the same nodes, by category and natural key, and
\* the same CONTAINS and TRANSFORMS_TO edges for a single well-formed
\* declaration, and return the same counts when no column name repeats.
C27_BuildersAgree ==
  \A i \in DOMAIN procs :
    (procs[i].kind = "cached" /\ ~ Running(i)) =>
      \A o \in Run(NewFrame("uncached", procs[i].decls), EmptyStore, clock) :
        /\ SameGraph(o, procs[i], store)
        /\ NoRepeat(procs[i].decls[1]) => SameCounts(o, procs[i])

(***************************************************************************)
(* The Node Cache and the containment edges at the end of a batch.         *)
(***************************************************************************)
\* The cache key of the parent of a cached table or column.
ParentKey(key) ==
  CASE key[1] = "source_tables" -> <<"source_schemas", key[2]>>
    [] key[1] = "target_tables" -> <<"target_schemas", key[2]>>
    [] key[1] = "source_columns" -> <<"source_tables", key[2], key[3]>>
    [] key[1] = "target_columns" -> <<"target_tables", key[2], key[3]>>

\* The keys of the tables and columns of a cache.
Contained(cache) ==
  {key \in DOMAIN cache :
     key[1] \in {"source_tables", "target_tables", "source_columns", "target_columns"}}

\* C28: at the end of a batch every table and column whose id is in the
\* Node Cache has a CONTAINS edge from its parent in the store, also when a
\* store write failed after the node was cached.
C28_CachedNodesContained ==
  \A i \in DOMAIN procs :
    (Done(i) /\ IsBatch(procs[i])) =>
      \A key \in Contained(procs[i].cache) :
        /\ ParentKey(key) \in DOMAIN procs[i].cache
        /\ EdgesBetween(store, "CONTAINS", procs[i].cache[ParentKey(key)],
                        procs[i].cache[key]) # {}

(***************************************************************************)
(* Containment after the metadata builds.                                  *)
(***************************************************************************)
\* The CONTAINS edges that arrive at node n.
IncomingContains(st, n) ==
  {e \in st.edges : e.relationship_type = "CONTAINS" /\ e.target_id = n.id}

\* The category of the parent of a contained node.
ParentCategory ==
  [Schema |-> "SourceSystem", Table |-> "Schema", Column |-> "Table",
   SourceSchema |-> "SourceSystem", SourceTable |-> "SourceSchema",
   SourceColumn |-> "SourceTable"]

\* Every node of the categories has exactly one incoming CONTAINS edge, and
\* it comes from a node of the parent category.
Forest(st, categories) ==
  \A n \in st.nodes :
    n.node_type \in categories =>
      /\ Cardinality(IncomingContains(st, n)) = 1
      /\ \A e \in IncomingContains(st, n) :
           NodeById(st, e.source_id).node_type = ParentCategory[n.node_type]

\* C29: after any metadata build containment is a forest: every Schema node
\* has exactly one incoming CONTAINS edge, from its source system, every
\* Table node exactly one, from its schema, and every Column node exactly
\* one, from its table, also when two source systems of the snapshot have a
\* table of the same schema and name.
C29_ContainmentIsForest ==
  Forest(store, {"Schema", "Table", "Column", "SourceSchema", "SourceTable", "SourceColumn"})

(***************************************************************************)
(* The result of build_data_vault.                                         *)
(***************************************************************************)
\* No two entries of the node list share an id.
NoRepeatedId(nodes) == \A x, y \in DOMAIN nodes : nodes[x].id = nodes[y].id => x = y

\* Every node of the store, which was empty when the batch began, is in the
\* node list.
AllWrittenListed(st, nodes) == NodeIds(st) = {nodes[x].id : x \in DOMAIN nodes}

\* C30: the node list returned by a batch build contains every node written
\* to the store during the batch exactly once, the nodes written by a
\* declaration that failed later included, and relationships_count is the
\* length of the returned relationship list.
C30_BatchResultComplete ==
  \A i \in DOMAIN procs :
    (Done(i) /\ procs[i].kind = "batch") =>
      /\ NoRepeatedId(procs[i].all.nodes)
      /\ AllWrittenListed(store, procs[i].all.nodes)
      /\ procs[i].all.relationships_count = Len(procs[i].all.rels)

====
